---- MODULE Spec2Model ----
(***************************************************************************)
(* Model of the bloom-cell lab-report server.  The repository holds three  *)
(* server scripts that expose the same two routes:                         *)
(*   "index"      src/index.js                                             *)
(*   "simplified" src/unnamed/part_000 lines 1-779                         *)
(*   "precision"  src/unnamed/part_000 lines 782-1934                      *)
(* A JavaScript string is a sequence of one-character strings; the glyphs  *)
(* U+2264 and U+2265 are written "u2264" and "u2265".                      *)
(***************************************************************************)
EXTENDS Integers, Sequences, FiniteSets

VARIABLES
    server,          \* which server script is running
    pc,              \* position of the /analyzeWithDataset handler
    modelOutput,     \* JSON.parse of the model's reply (index.js:384)
    evaluated,       \* index.js:388
    unmatched,       \* index.js:389
    withinRange,     \* the values of the local isWithinRange (index.js:405), one per push to evaluated
    res,             \* the response sent by the handler
    body,            \* req.body of the /analyzeWithDataset request
    datasetReads,    \* calls of the dataset loader made by the analyze handler
    analysisCalls,   \* calls of model.generateContent made by the analyze handler
    sent,            \* responses the analyze handler has sent
    biomarker,       \* the extracted record handed to post-processing
    processed,       \* the record post-processing returns
    thrown,          \* whether post-processing raised a TypeError
    inputName,       \* the argument of standardizeBiomarkerName
    standardized,    \* what standardizeBiomarkerName(inputName) returned
    restandardized,  \* what standardizeBiomarkerName returned for that result
    referenceRange,  \* the argument of extractUnitFromReferenceRange
    extractedUnit,   \* what extractUnitFromReferenceRange returned
    sheet,           \* the rows of the dataset workbook's first sheet
    datasetRows,     \* what the dataset loader returned
    csv,             \* the text the CSV generator returned
    upload,          \* req.file of the /extractReportGemini request
    file,            \* the uploaded file on disk
    xpc,             \* position of the /extractReportGemini handler
    rawTextLength,   \* length of the text extracted from the document, once cleaned
    modelCalls,      \* calls of model.generateContent made by the extract handler
    unlinkPending,   \* fs.unlink was called and its callback has not run
    xres,            \* the response sent by the extract handler
    xreply,          \* what the extract handler's model call settled with
    xsent,           \* responses the extract handler has sent
    rawText,         \* the argument of preprocessTextForPrecision
    digitsFixed,     \* its text after the replaces of letters that stand in for digits
    preprocessed,    \* what preprocessTextForPrecision(rawText) returned
    requests,        \* the handler invocations of concurrent requests, each with its own locals
    disk,            \* the files of the uploads directory
    unlinks          \* the fs.unlink calls whose callbacks have not run

vars == <<server, pc, modelOutput, evaluated, unmatched, withinRange, res,
          body, datasetReads, analysisCalls, sent,
          biomarker, processed, thrown, inputName, standardized, restandardized,
          referenceRange, extractedUnit, sheet, datasetRows, csv,
          upload, file, xpc, rawTextLength, modelCalls, unlinkPending, xres,
          xreply, xsent, rawText, digitsFixed, preprocessed,
          requests, disk, unlinks>>

analyzeVars == <<pc, modelOutput, evaluated, unmatched, withinRange, res,
                 body, datasetReads, analysisCalls, sent>>
postVars == <<biomarker, processed, thrown>>
nameVars == <<inputName, standardized, restandardized>>
unitVars == <<referenceRange, extractedUnit>>
datasetVars == <<sheet, datasetRows, csv>>
textVars == <<rawText, digitsFixed, preprocessed>>
servingVars == <<requests, disk, unlinks>>
extractVars == <<upload, file, xpc, rawTextLength, modelCalls, unlinkPending, xres,
                 xreply, xsent>>

-----------------------------------------------------------------------------
(* JavaScript values *)

\* Numbers: NaN, +-Infinity, or the decimal m * 10^e
NaN == [k |-> "nan", m |-> 0, e |-> 0]
Infinite(sign) == [k |-> "inf", m |-> sign, e |-> 0]

RECURSIVE Pow10(_)
Pow10(k) == IF k <= 0 THEN 1 ELSE 10 * Pow10(k - 1)

\* the decimal m * 10^e with trailing zeros of m moved into e, so that equal
\* numbers have equal representations
RECURSIVE Finite(_, _)
Finite(m, e) ==
    IF m = 0 THEN [k |-> "num", m |-> 0, e |-> 0]
    ELSE IF m % 10 = 0 THEN Finite(m \div 10, e + 1)
    ELSE [k |-> "num", m |-> m, e |-> e]

\* a value is its type t with the characters s of a string, the number n of
\* a number, or the truth value b of a boolean
Undefined == [t |-> "undefined", s |-> <<>>, n |-> NaN, b |-> FALSE]
Null == [t |-> "null", s |-> <<>>, n |-> NaN, b |-> FALSE]
Str(s) == [t |-> "string", s |-> s, n |-> NaN, b |-> FALSE]
Number(x) == [t |-> "number", s |-> <<>>, n |-> x, b |-> FALSE]
Bool(b) == [t |-> "boolean", s |-> <<>>, n |-> NaN, b |-> b]

\* ToBoolean: undefined, null, "", 0, NaN and false are falsy
Truthy(v) ==
    CASE v.t = "undefined" -> FALSE
      [] v.t = "null" -> FALSE
      [] v.t = "string" -> v.s # <<>>
      [] v.t = "number" -> ~(v.n.k = "nan" \/ (v.n.k = "num" /\ v.n.m = 0))
      [] OTHER -> v.b

\* a || null
OrNull(v) == IF Truthy(v) THEN v ELSE Null

isNaN(x) == x.k = "nan"

\* a <= b on numbers; false when either is NaN
NumLeq(a, b) ==
    CASE a.k = "nan" \/ b.k = "nan" -> FALSE
      [] a.k = "inf" -> a.m = -1 \/ (b.k = "inf" /\ b.m = 1)
      [] b.k = "inf" -> b.m = 1
      [] OTHER ->
            LET lo == IF a.e < b.e THEN a.e ELSE b.e
            IN  a.m * Pow10(a.e - lo) <= b.m * Pow10(b.e - lo)

NumGeq(a, b) == NumLeq(b, a)

-----------------------------------------------------------------------------
(* Strings *)

Digits == {"0", "1", "2", "3", "4", "5", "6", "7", "8", "9"}

DigitVal(c) ==
    CASE c = "0" -> 0 [] c = "1" -> 1 [] c = "2" -> 2 [] c = "3" -> 3
      [] c = "4" -> 4 [] c = "5" -> 5 [] c = "6" -> 6 [] c = "7" -> 7
      [] c = "8" -> 8 [] OTHER -> 9

WhiteSpace == {" ", "\t", "\n"}

Drop(s, k) == SubSeq(s, k + 1, Len(s))
Take(s, k) == SubSeq(s, 1, k)

StartsWith(s, p) == Len(s) >= Len(p) /\ Take(s, Len(p)) = p

RECURSIVE TrimStart(_)
TrimStart(s) ==
    IF s # <<>> /\ Head(s) \in WhiteSpace THEN TrimStart(Tail(s)) ELSE s

RECURSIVE TrimEnd(_)
TrimEnd(s) ==
    IF s # <<>> /\ s[Len(s)] \in WhiteSpace THEN TrimEnd(Take(s, Len(s) - 1)) ELSE s

\* String.prototype.trim
Trim(s) == TrimEnd(TrimStart(s))

\* s.replace(/[...]/g, ""): every character of the class removed
RemoveChars(s, class) == SelectSeq(s, LAMBDA c : c \notin class)

\* length of the longest prefix of decimal digits
RECURSIVE DigitRun(_)
DigitRun(s) ==
    IF s # <<>> /\ Head(s) \in Digits THEN 1 + DigitRun(Tail(s)) ELSE 0

\* the number written by a sequence of decimal digits
RECURSIVE DigitsValue(_)
DigitsValue(s) ==
    IF s = <<>> THEN 0
    ELSE 10 * DigitsValue(Take(s, Len(s) - 1)) + DigitVal(s[Len(s)])

InfinityWord == <<"I", "n", "f", "i", "n", "i", "t", "y">>

\* the ExponentPart at the start of rest: the exponent it writes, 0 when
\* there is none ("e" with no digit after it is not part of the literal)
ExponentValue(rest) ==
    LET hasE == rest # <<>> /\ Head(rest) \in {"e", "E"}
        expSrc0 == IF hasE THEN Tail(rest) ELSE <<>>
        expSigned == expSrc0 # <<>> /\ Head(expSrc0) \in {"+", "-"}
        expSign == IF expSrc0 # <<>> /\ Head(expSrc0) = "-" THEN -1 ELSE 1
        expSrc == IF expSigned THEN Tail(expSrc0) ELSE expSrc0
        ne == DigitRun(expSrc)
    IN  IF ne > 0 THEN expSign * DigitsValue(Take(expSrc, ne)) ELSE 0

\* the number written by the longest prefix of u that is digits [. digits]
\* [exponent] or . digits [exponent], with the given sign; NaN when there
\* is none
UnsignedDecimal(u, sign) ==
    LET ni == DigitRun(u)
        afterInt == Drop(u, ni)
        hasDot == afterInt # <<>> /\ Head(afterInt) = "."
        fracSrc == IF hasDot THEN Tail(afterInt) ELSE <<>>
        nf == DigitRun(fracSrc)
        afterFrac == IF hasDot THEN Drop(fracSrc, nf) ELSE afterInt
        mant == DigitsValue(Take(u, ni)) * Pow10(nf) + DigitsValue(Take(fracSrc, nf))
    IN  IF ni + nf = 0 THEN NaN
        ELSE Finite(sign * mant, ExponentValue(afterFrac) - nf)

\* parseFloat of a string: leading white space skipped, then the longest
\* prefix that is a StrDecimalLiteral ([+-] Infinity | digits [. digits]
\* [exponent] | . digits [exponent]); NaN when there is none
ParseFloatStr(s) ==
    LET t == TrimStart(s)
        signed == t # <<>> /\ Head(t) \in {"+", "-"}
        sign == IF t # <<>> /\ Head(t) = "-" THEN -1 ELSE 1
        u == IF signed THEN Tail(t) ELSE t
    IN  IF StartsWith(u, InfinityWord) THEN Infinite(sign)
        ELSE UnsignedDecimal(u, sign)

\* ToString of a string, null, undefined or a boolean
JSToString(v) ==
    CASE v.t = "string" -> v.s
      [] v.t = "null" -> <<"n", "u", "l", "l">>
      [] v.t = "undefined" -> <<"u", "n", "d", "e", "f", "i", "n", "e", "d">>
      [] v.t = "boolean" -> IF v.b THEN <<"t", "r", "u", "e">>
                                 ELSE <<"f", "a", "l", "s", "e">>

\* parseFloat(v): v is converted to a string first
parseFloat(v) == ParseFloatStr(JSToString(v))

-----------------------------------------------------------------------------
(* Bounds and input sets *)

\* longest pooled sequence built from the sample candidates
MaxPool == 2

Glucose == <<"G", "l", "u", "c", "o", "s", "e">>
ExoticMarker == <<"E", "x", "o", "t", "i", "c", " ", "M", "a", "r", "k", "e", "r">>
Male == <<"m", "a", "l", "e">>
Mg == <<"m", "g">>
NotApplicable == <<"N", "/", "A">>

\* a list field of the reply: an array, or absent
Arr(items) == [isArray |-> TRUE, items |-> items]
NotArray == [isArray |-> FALSE, items |-> <<>>]

\* a match candidate: one item of the model's evaluated or unmatched list.
\* A field the item does not have reads as undefined.
Candidate(name, value, unit, mm, gu, min, max, sev) ==
    [name |-> name, value |-> value, unit |-> unit, matched_marker |-> mm,
     gender_used |-> gu, min |-> min, max |-> max, severity |-> sev]

ValueTexts == {Undefined, Null, Str(<<>>), Str(<<"5">>), Str(<<"7", "0">>),
               Str(<<"1", "0", "5">>), Str(NotApplicable)}
MinTexts == {Undefined, Null, Str(<<"3">>), Str(<<"7", "0">>), Str(NotApplicable)}
MaxTexts == {Undefined, Null, Str(<<"5">>), Str(<<"9", "9">>), Str(NotApplicable)}
MarkerTexts == {Undefined, Null, Str(<<>>), Str(<<"X">>)}
SeverityTexts == {Undefined, Null, Str(<<"2">>)}

Candidates ==
    { Candidate(nm, v, Str(Mg), mm, Str(Male), mn, mx, sv) :
        nm \in {Str(Glucose), Undefined}, v \in ValueTexts, mm \in MarkerTexts,
        mn \in MinTexts, mx \in MaxTexts, sv \in SeverityTexts }

\* the three reconciler examples of the specification's testable properties
GlucoseExample ==
    Candidate(Str(Glucose), Str(<<"1", "0", "5">>), Undefined, Str(Glucose),
              Undefined, Str(<<"7", "0">>), Str(<<"9", "9">>), Str(<<"2">>))
ExoticExample ==
    Candidate(Str(ExoticMarker), Str(<<"3">>), Undefined, Null, Undefined,
              Null, Null, Null)
OpenEndedExample ==
    Candidate(Undefined, Str(<<"5">>), Undefined, Str(<<"X">>), Undefined,
              Str(<<"3">>), Null, Undefined)

Samples ==
    { GlucoseExample, ExoticExample, OpenEndedExample,
      Candidate(Str(<<>>), Str(<<>>), Str(<<>>), Str(<<"X">>), Str(Male),
                Null, Null, Null),
      Candidate(Str(Glucose), Str(<<"5">>), Str(Mg), Str(<<>>), Str(Male),
                Str(<<"3">>), Str(<<"5">>), Str(<<"2">>)),
      Candidate(Str(Glucose), Str(<<"5">>), Str(Mg), Str(<<"X">>), Null,
                Str(<<"3">>), Str(<<"5">>), Str(<<"2">>)),
      Candidate(Str(Glucose), Str(<<"5">>), Str(Mg), Str(<<"X">>), Str(<<"b", "o", "t", "h">>),
                Str(<<"3">>), Null, Null) }

\* the sequences over S of length at most k
SeqsUpTo(S, k) == UNION { [1..n -> S] : n \in 0..k }

\* the parsed replies of the model: one candidate of the full product in
\* either list, or a pooled sequence of samples split at any point (either
\* list possibly not an array)
ModelOutputs ==
    { [evaluated |-> Arr(<<c>>), unmatched |-> Arr(<<>>)] : c \in Candidates \cup Samples }
    \cup { [evaluated |-> Arr(<<>>), unmatched |-> Arr(<<c>>)] : c \in Candidates \cup Samples }
    \cup UNION { { [evaluated |-> Arr(Take(q, k)), unmatched |-> Arr(Drop(q, k))] :
                      k \in 0..Len(q) } : q \in SeqsUpTo(Samples, MaxPool) }
    \cup { [evaluated |-> NotArray, unmatched |-> Arr(q)] : q \in SeqsUpTo(Samples, 1) }
    \cup { [evaluated |-> Arr(q), unmatched |-> NotArray] : q \in SeqsUpTo(Samples, 1) }

NoOutput == [evaluated |-> NotArray, unmatched |-> NotArray]

\* what the awaited model call delivers: a rejection, a reply whose text()
\* throws an error that carries the reply (a blocked reply), or a reply text
\* that JSON.parse rejects (cut short, or otherwise malformed) or accepts
ModelReplies ==
    { [kind |-> k, out |-> NoOutput] :
          k \in {"rejected", "blocked", "truncated", "malformed"} }
    \cup { [kind |-> "json", out |-> mo] : mo \in ModelOutputs }

\* the request body: no data object, data.biomarkers not an array, or well-formed
Bodies == {"noData", "notArray", "wellFormed"}
NoBody == "none"

-----------------------------------------------------------------------------
(* The match reconciler, src/index.js *)

\* the gate without its empty-string test
isValidMatchAcceptsEmptyMarker(entry) ==
    /\ entry.matched_marker # Null
    /\ (entry.min # Null \/ entry.max # Null \/ entry.severity # Null)

\* index.js:399-402
isValidMatch(entry) ==
    /\ entry.matched_marker # Null
    /\ entry.matched_marker # Str(<<>>)
    /\ (entry.min # Null \/ entry.max # Null \/ entry.severity # Null)

\* the range check with an exclusive upper end
RangeDecisionExclusiveMax(patientValue, minRange, maxRange) ==
    IF ~isNaN(patientValue)
    THEN IF ~isNaN(minRange) /\ ~isNaN(maxRange)
         THEN Bool(NumGeq(patientValue, minRange) /\ ~NumGeq(patientValue, maxRange))
         ELSE IF ~isNaN(minRange) /\ isNaN(maxRange)
         THEN Bool(NumGeq(patientValue, minRange))
         ELSE IF isNaN(minRange) /\ ~isNaN(maxRange)
         THEN Bool(NumLeq(patientValue, maxRange))
         ELSE Bool(TRUE)
    ELSE Null

\* the range check with the comparison against a lone minimum reversed
RangeDecisionReversedMin(patientValue, minRange, maxRange) ==
    IF ~isNaN(patientValue)
    THEN IF ~isNaN(minRange) /\ ~isNaN(maxRange)
         THEN Bool(NumGeq(patientValue, minRange) /\ NumLeq(patientValue, maxRange))
         ELSE IF ~isNaN(minRange) /\ isNaN(maxRange)
         THEN Bool(NumLeq(patientValue, minRange))
         ELSE IF isNaN(minRange) /\ ~isNaN(maxRange)
         THEN Bool(NumLeq(patientValue, maxRange))
         ELSE Bool(TRUE)
    ELSE Null

\* the range check that leaves a textual range undecided
RangeDecisionTextualNull(patientValue, minRange, maxRange) ==
    IF ~isNaN(patientValue)
    THEN IF ~isNaN(minRange) /\ ~isNaN(maxRange)
         THEN Bool(NumGeq(patientValue, minRange) /\ NumLeq(patientValue, maxRange))
         ELSE IF ~isNaN(minRange) /\ isNaN(maxRange)
         THEN Bool(NumGeq(patientValue, minRange))
         ELSE IF isNaN(minRange) /\ ~isNaN(maxRange)
         THEN Bool(NumLeq(patientValue, maxRange))
         ELSE Null
    ELSE Null

\* the range check that starts from true instead of null
RangeDecisionDefaultTrue(patientValue, minRange, maxRange) ==
    IF ~isNaN(patientValue)
    THEN IF ~isNaN(minRange) /\ ~isNaN(maxRange)
         THEN Bool(NumGeq(patientValue, minRange) /\ NumLeq(patientValue, maxRange))
         ELSE IF ~isNaN(minRange) /\ isNaN(maxRange)
         THEN Bool(NumGeq(patientValue, minRange))
         ELSE IF isNaN(minRange) /\ ~isNaN(maxRange)
         THEN Bool(NumLeq(patientValue, maxRange))
         ELSE Bool(TRUE)
    ELSE Bool(TRUE)

\* index.js:405-425, on the three parsed numbers
RangeDecision(patientValue, minRange, maxRange) ==
    IF ~isNaN(patientValue)
    THEN IF ~isNaN(minRange) /\ ~isNaN(maxRange)
         THEN Bool(NumGeq(patientValue, minRange) /\ NumLeq(patientValue, maxRange))
         ELSE IF ~isNaN(minRange) /\ isNaN(maxRange)
         THEN Bool(NumGeq(patientValue, minRange))
         ELSE IF isNaN(minRange) /\ ~isNaN(maxRange)
         THEN Bool(NumLeq(patientValue, maxRange))
         ELSE Bool(TRUE)
    ELSE Null

\* the value of the local isWithinRange when the entry is pushed
RangeCheck(entry) ==
    RangeDecision(parseFloat(entry.value), parseFloat(entry.min), parseFloat(entry.max))

\* a copy that leaves the proposer's gender_used out
EvaluatedEntryNullsGender(entry) == [entry EXCEPT !.gender_used = Null]

\* index.js:427-429: a copy of the entry's own properties
EvaluatedEntry(entry) == entry

\* the unmatched entry with the proposer's gender_used passed through
UnmatchedEntryKeepsGender(entry) ==
    [name |-> OrNull(entry.name), value |-> OrNull(entry.value),
     unit |-> OrNull(entry.unit), matched_marker |-> Null,
     gender_used |-> entry.gender_used, min |-> Null, max |-> Null,
     severity |-> Null]

\* index.js:432-441
UnmatchedEntry(entry) ==
    [name |-> OrNull(entry.name), value |-> OrNull(entry.value),
     unit |-> OrNull(entry.unit), matched_marker |-> Null,
     gender_used |-> Null, min |-> Null, max |-> Null, severity |-> Null]

\* index.js:392-395
allEntries(mo) ==
    (IF mo.evaluated.isArray THEN mo.evaluated.items ELSE <<>>)
    \o (IF mo.unmatched.isArray THEN mo.unmatched.items ELSE <<>>)

\* a callback that puts each entry in front of the earlier ones
ReconcileEntryNewestFirst(acc, entry) ==
    IF isValidMatch(entry)
    THEN [evaluated |-> <<EvaluatedEntry(entry)>> \o acc.evaluated,
          unmatched |-> acc.unmatched,
          withinRange |-> <<RangeCheck(entry)>> \o acc.withinRange]
    ELSE [evaluated |-> acc.evaluated,
          unmatched |-> <<UnmatchedEntry(entry)>> \o acc.unmatched,
          withinRange |-> acc.withinRange]

\* one call of the forEach callback, index.js:397-443
ReconcileEntry(acc, entry) ==
    IF isValidMatch(entry)
    THEN [evaluated |-> Append(acc.evaluated, EvaluatedEntry(entry)),
          unmatched |-> acc.unmatched,
          withinRange |-> Append(acc.withinRange, RangeCheck(entry))]
    ELSE [evaluated |-> acc.evaluated,
          unmatched |-> Append(acc.unmatched, UnmatchedEntry(entry)),
          withinRange |-> acc.withinRange]

RECURSIVE ForEachEntry(_, _)
ForEachEntry(entries, acc) ==
    IF entries = <<>> THEN acc
    ELSE ForEachEntry(Tail(entries), ReconcileEntry(acc, Head(entries)))

\* index.js:388-443
Reconcile(mo) ==
    ForEachEntry(allEntries(mo),
                 [evaluated |-> <<>>, unmatched |-> <<>>, withinRange |-> <<>>])

-----------------------------------------------------------------------------
(* The /analyzeWithDataset handler *)

Servers == {"index", "simplified", "precision"}

\* errors the handler's try block can raise
NoDataError == [name |-> "TypeError", text |-> "Cannot destructure", code |-> "none"]
DatasetNotFoundError == [name |-> "Error", text |-> "Dataset file not found", code |-> "none"]
TruncatedError == [name |-> "SyntaxError", text |-> "Unexpected end of JSON input", code |-> "none"]
MalformedError == [name |-> "SyntaxError", text |-> "Unexpected token", code |-> "none"]
RejectedError == [name |-> "Error", text |-> "model call failed", code |-> "none"]
BlockedError == [name |-> "Error", text |-> "Text not available", code |-> "none"]
NotAListError == [name |-> "TypeError", text |-> "Cannot read properties of undefined", code |-> "none"]

NoResponse ==
    [status |-> 0, success |-> FALSE, error_type |-> "none", message |-> <<>>,
     evaluated |-> NotArray, unmatched |-> NotArray]

\* res.json({ success: true, evaluated, unmatched }) and its spread forms; a
\* message is the sequence of the parts of its template literal
SuccessResponse(ev, un) ==
    [status |-> 200, success |-> TRUE, error_type |-> "none", message |-> <<>>,
     evaluated |-> ev, unmatched |-> un]

\* index.js:304-309, part_000:666-671, part_000:1496-1501
NotArrayResponse ==
    [status |-> 400, success |-> FALSE, error_type |-> "none",
     message |-> <<"Request body must contain a 'data.biomarkers' array.">>,
     evaluated |-> NotArray, unmatched |-> NotArray]

FailureResponse(error_type, message) ==
    [status |-> 500, success |-> FALSE, error_type |-> error_type,
     message |-> message, evaluated |-> NotArray, unmatched |-> NotArray]

\* the catch block of index.js:446-470
CatchIndex(err) ==
    IF err.name = "SyntaxError" /\ err.text = "Unexpected end of JSON input"
    THEN FailureResponse("none", <<"Dataset analysis failed: ", err.text,
                                   ". Raw response might be incomplete. Check server logs.">>)
    ELSE FailureResponse("none", <<"Dataset analysis failed: ", err.text>>)

\* the catch blocks of part_000:731-755 and part_000:1605-1628
CatchVariant(err) ==
    IF err.text = "Unexpected end of JSON input"
    THEN FailureResponse("incomplete_json_response",
                         <<"AI analysis was incomplete. Please try again.">>)
    ELSE IF err.code = "ENOENT"
    THEN FailureResponse("missing_dataset", <<"Dataset file not found.">>)
    ELSE FailureResponse("analysis_error", <<"Analysis failed: ", err.text>>)

Catch(srv, err) == IF srv = "index" THEN CatchIndex(err) ELSE CatchVariant(err)

ReplyError(reply) ==
    CASE reply.kind = "rejected" -> RejectedError
      [] reply.kind = "blocked" -> BlockedError
      [] reply.kind = "truncated" -> TruncatedError
      [] OTHER -> MalformedError

\* index.js:446-453 and index.js:178-186: the catch block calls
\* err.response.text() when the error carries a response with a text member,
\* which is the call that threw the error when the reply was blocked
\* (index.js:381, index.js:171); it throws again, before any response is sent
CatchRethrows(srv, reply) == srv = "index" /\ reply.kind = "blocked"

\* the handler from the request to the awaited model call:
\* index.js:298-351, part_000:662-699, part_000:1492-1529
AnalyzeRequest(reqBody, datasetExists) ==
    /\ pc = "idle"
    /\ body' = reqBody
    /\ IF reqBody = "noData"
       THEN /\ pc' = "responded" /\ res' = Catch(server, NoDataError)
            /\ sent' = sent + 1
            /\ UNCHANGED <<datasetReads, analysisCalls>>
       ELSE IF reqBody = "notArray"
       THEN /\ pc' = "responded" /\ res' = NotArrayResponse
            /\ sent' = sent + 1
            /\ UNCHANGED <<datasetReads, analysisCalls>>
       ELSE IF ~datasetExists
       THEN /\ pc' = "responded" /\ res' = Catch(server, DatasetNotFoundError)
            /\ datasetReads' = datasetReads + 1
            /\ sent' = sent + 1
            /\ UNCHANGED analysisCalls
       ELSE /\ pc' = "awaitModel" /\ res' = res
            /\ datasetReads' = datasetReads + 1
            /\ analysisCalls' = analysisCalls + 1
            /\ UNCHANGED sent
    /\ UNCHANGED <<server, modelOutput, evaluated, unmatched, withinRange, postVars,
                   nameVars, unitVars, datasetVars, extractVars, textVars, servingVars>>

\* the handler from the model's reply to the response:
\* index.js:381-470, part_000:727-755, part_000:1557-1628
ModelReply(reply) ==
    /\ pc = "awaitModel"
    /\ IF CatchRethrows(server, reply)
       THEN /\ pc' = "threw"
            /\ UNCHANGED <<sent, res, modelOutput, evaluated, unmatched, withinRange>>
       ELSE IF reply.kind # "json"
       THEN /\ pc' = "responded"
            /\ sent' = sent + 1
            /\ res' = Catch(server, ReplyError(reply))
            /\ UNCHANGED <<modelOutput, evaluated, unmatched, withinRange>>
       ELSE /\ pc' = "responded"
            /\ sent' = sent + 1
            /\ modelOutput' = reply.out
            /\ IF server = "index"
               THEN LET r == Reconcile(reply.out)
                    IN  /\ evaluated' = r.evaluated
                        /\ unmatched' = r.unmatched
                        /\ withinRange' = r.withinRange
                        /\ res' = SuccessResponse(Arr(r.evaluated), Arr(r.unmatched))
               ELSE /\ UNCHANGED <<evaluated, unmatched, withinRange>>
                    /\ IF server = "precision"
                          /\ ~(reply.out.evaluated.isArray /\ reply.out.unmatched.isArray)
                       THEN res' = Catch(server, NotAListError)
                       ELSE res' = SuccessResponse(reply.out.evaluated, reply.out.unmatched)
    /\ UNCHANGED <<server, body, datasetReads, analysisCalls, postVars, nameVars,
                   unitVars, datasetVars, extractVars, textVars, servingVars>>

-----------------------------------------------------------------------------
(* Biomarker name standardization: part_000:264-333 and part_000:1246-1318 *)

UpperCase == <<"A", "B", "C", "D", "E", "F", "G", "H", "I", "J", "K", "L", "M",
               "N", "O", "P", "Q", "R", "S", "T", "U", "V", "W", "X", "Y", "Z">>
LowerCase == <<"a", "b", "c", "d", "e", "f", "g", "h", "i", "j", "k", "l", "m",
               "n", "o", "p", "q", "r", "s", "t", "u", "v", "w", "x", "y", "z">>

ToLowerChar(c) ==
    IF \E i \in 1..Len(UpperCase) : UpperCase[i] = c
    THEN LowerCase[CHOOSE i \in 1..Len(UpperCase) : UpperCase[i] = c]
    ELSE c

\* String.prototype.toLowerCase
toLowerCase(s) == [i \in 1..Len(s) |-> ToLowerChar(s[i])]

\* an object or function, named by the property it was read from
Obj(s) == [t |-> "object", s |-> s, n |-> NaN, b |-> TRUE]

\* a synonym table in which one canonical name is itself a synonym of another
standardizationsChained ==
    {
      <<<<"w", "b", "c">>,
        <<"W", "h", "i", "t", "e", " ", "B", "l", "o", "o", "d", " ", "C", "e", "l", "l", " ", "C", "o", "u", "n", "t">>>>,
      <<<<"w", "h", "i", "t", "e", " ", "b", "l", "o", "o", "d", " ", "c", "e", "l", "l", "s">>,
        <<"W", "h", "i", "t", "e", " ", "B", "l", "o", "o", "d", " ", "C", "e", "l", "l", " ", "C", "o", "u", "n", "t">>>>,
      <<<<"l", "e", "u", "k", "o", "c", "y", "t", "e", "s">>,
        <<"W", "h", "i", "t", "e", " ", "B", "l", "o", "o", "d", " ", "C", "e", "l", "l", " ", "C", "o", "u", "n", "t">>>>,
      <<<<"r", "b", "c">>,
        <<"R", "e", "d", " ", "B", "l", "o", "o", "d", " ", "C", "e", "l", "l", " ", "C", "o", "u", "n", "t">>>>,
      <<<<"r", "e", "d", " ", "b", "l", "o", "o", "d", " ", "c", "e", "l", "l", "s">>,
        <<"R", "e", "d", " ", "B", "l", "o", "o", "d", " ", "C", "e", "l", "l", " ", "C", "o", "u", "n", "t">>>>,
      <<<<"h", "g", "b">>,
        <<"H", "b">>>>,
      <<<<"h", "b">>,
        <<"H", "e", "m", "o", "g", "l", "o", "b", "i", "n">>>>,
      <<<<"h", "c", "t">>,
        <<"H", "e", "m", "a", "t", "o", "c", "r", "i", "t">>>>,
      <<<<"p", "l", "t">>,
        <<"P", "l", "a", "t", "e", "l", "e", "t", " ", "C", "o", "u", "n", "t">>>>,
      <<<<"p", "l", "a", "t", "e", "l", "e", "t", "s">>,
        <<"P", "l", "a", "t", "e", "l", "e", "t", " ", "C", "o", "u", "n", "t">>>>,
      <<<<"m", "c", "v">>,
        <<"M", "e", "a", "n", " ", "C", "o", "r", "p", "u", "s", "c", "u", "l", "a", "r", " ", "V", "o", "l", "u", "m", "e">>>>,
      <<<<"m", "c", "h">>,
        <<"M", "e", "a", "n", " ", "C", "o", "r", "p", "u", "s", "c", "u", "l", "a", "r", " ", "H", "e", "m", "o", "g", "l", "o", "b", "i", "n">>>>,
      <<<<"m", "c", "h", "c">>,
        <<"M", "e", "a", "n", " ", "C", "o", "r", "p", "u", "s", "c", "u", "l", "a", "r", " ", "H", "e", "m", "o", "g", "l", "o", "b", "i", "n", " ", "C", "o", "n", "c", "e", "n", "t", "r", "a", "t", "i", "o", "n">>>>,
      <<<<"r", "d", "w">>,
        <<"R", "e", "d", " ", "C", "e", "l", "l", " ", "D", "i", "s", "t", "r", "i", "b", "u", "t", "i", "o", "n", " ", "W", "i", "d", "t", "h">>>>,
      <<<<"g", "l", "u">>,
        <<"G", "l", "u", "c", "o", "s", "e">>>>,
      <<<<"g", "l", "u", "c", "o", "s", "e">>,
        <<"G", "l", "u", "c", "o", "s", "e">>>>,
      <<<<"b", "l", "o", "o", "d", " ", "s", "u", "g", "a", "r">>,
        <<"G", "l", "u", "c", "o", "s", "e">>>>,
      <<<<"b", "u", "n">>,
        <<"B", "l", "o", "o", "d", " ", "U", "r", "e", "a", " ", "N", "i", "t", "r", "o", "g", "e", "n">>>>,
      <<<<"c", "r">>,
        <<"C", "r", "e", "a", "t", "i", "n", "i", "n", "e">>>>,
      <<<<"c", "r", "e", "a", "t">>,
        <<"C", "r", "e", "a", "t", "i", "n", "i", "n", "e">>>>,
      <<<<"n", "a">>,
        <<"S", "o", "d", "i", "u", "m">>>>,
      <<<<"k">>,
        <<"P", "o", "t", "a", "s", "s", "i", "u", "m">>>>,
      <<<<"c", "l">>,
        <<"C", "h", "l", "o", "r", "i", "d", "e">>>>,
      <<<<"c", "o", "2">>,
        <<"C", "a", "r", "b", "o", "n", " ", "D", "i", "o", "x", "i", "d", "e">>>>,
      <<<<"c", "h", "o", "l">>,
        <<"T", "o", "t", "a", "l", " ", "C", "h", "o", "l", "e", "s", "t", "e", "r", "o", "l">>>>,
      <<<<"c", "h", "o", "l", "e", "s", "t", "e", "r", "o", "l">>,
        <<"T", "o", "t", "a", "l", " ", "C", "h", "o", "l", "e", "s", "t", "e", "r", "o", "l">>>>,
      <<<<"h", "d", "l">>,
        <<"H", "D", "L", " ", "C", "h", "o", "l", "e", "s", "t", "e", "r", "o", "l">>>>,
      <<<<"l", "d", "l">>,
        <<"L", "D", "L", " ", "C", "h", "o", "l", "e", "s", "t", "e", "r", "o", "l">>>>,
      <<<<"t", "r", "i", "g">>,
        <<"T", "r", "i", "g", "l", "y", "c", "e", "r", "i", "d", "e", "s">>>>,
      <<<<"t", "r", "i", "g", "l", "y", "c", "e", "r", "i", "d", "e", "s">>,
        <<"T", "r", "i", "g", "l", "y", "c", "e", "r", "i", "d", "e", "s">>>>,
      <<<<"a", "l", "t">>,
        <<"A", "l", "a", "n", "i", "n", "e", " ", "A", "m", "i", "n", "o", "t", "r", "a", "n", "s", "f", "e", "r", "a", "s", "e">>>>,
      <<<<"s", "g", "p", "t">>,
        <<"A", "l", "a", "n", "i", "n", "e", " ", "A", "m", "i", "n", "o", "t", "r", "a", "n", "s", "f", "e", "r", "a", "s", "e">>>>,
      <<<<"a", "s", "t">>,
        <<"A", "s", "p", "a", "r", "t", "a", "t", "e", " ", "A", "m", "i", "n", "o", "t", "r", "a", "n", "s", "f", "e", "r", "a", "s", "e">>>>,
      <<<<"s", "g", "o", "t">>,
        <<"A", "s", "p", "a", "r", "t", "a", "t", "e", " ", "A", "m", "i", "n", "o", "t", "r", "a", "n", "s", "f", "e", "r", "a", "s", "e">>>>,
      <<<<"a", "l", "k", "p">>,
        <<"A", "l", "k", "a", "l", "i", "n", "e", " ", "P", "h", "o", "s", "p", "h", "a", "t", "a", "s", "e">>>>,
      <<<<"a", "l", "p">>,
        <<"A", "l", "k", "a", "l", "i", "n", "e", " ", "P", "h", "o", "s", "p", "h", "a", "t", "a", "s", "e">>>>,
      <<<<"t", "b", "i", "l", "i">>,
        <<"T", "o", "t", "a", "l", " ", "B", "i", "l", "i", "r", "u", "b", "i", "n">>>>,
      <<<<"b", "i", "l", "i", "r", "u", "b", "i", "n">>,
        <<"T", "o", "t", "a", "l", " ", "B", "i", "l", "i", "r", "u", "b", "i", "n">>>>,
      <<<<"t", "s", "h">>,
        <<"T", "h", "y", "r", "o", "i", "d", " ", "S", "t", "i", "m", "u", "l", "a", "t", "i", "n", "g", " ", "H", "o", "r", "m", "o", "n", "e">>>>,
      <<<<"t", "4">>,
        <<"T", "h", "y", "r", "o", "x", "i", "n", "e">>>>,
      <<<<"t", "3">>,
        <<"T", "r", "i", "i", "o", "d", "o", "t", "h", "y", "r", "o", "n", "i", "n", "e">>>>,
      <<<<"c", "k">>,
        <<"C", "r", "e", "a", "t", "i", "n", "e", " ", "K", "i", "n", "a", "s", "e">>>>,
      <<<<"c", "p", "k">>,
        <<"C", "r", "e", "a", "t", "i", "n", "e", " ", "K", "i", "n", "a", "s", "e">>>>,
      <<<<"c", "k", "-", "m", "b">>,
        <<"C", "r", "e", "a", "t", "i", "n", "e", " ", "K", "i", "n", "a", "s", "e", "-", "M", "B">>>>,
      <<<<"t", "r", "o", "p", "o", "n", "i", "n", " ", "i">>,
        <<"T", "r", "o", "p", "o", "n", "i", "n", " ", "I">>>>,
      <<<<"t", "r", "o", "p", "o", "n", "i", "n", " ", "t">>,
        <<"T", "r", "o", "p", "o", "n", "i", "n", " ", "T">>>>,
      <<<<"c", "r", "p">>,
        <<"C", "-", "R", "e", "a", "c", "t", "i", "v", "e", " ", "P", "r", "o", "t", "e", "i", "n">>>>,
      <<<<"e", "s", "r">>,
        <<"E", "r", "y", "t", "h", "r", "o", "c", "y", "t", "e", " ", "S", "e", "d", "i", "m", "e", "n", "t", "a", "t", "i", "o", "n", " ", "R", "a", "t", "e">>>>,
      <<<<"h", "b", "a", "1", "c">>,
        <<"H", "e", "m", "o", "g", "l", "o", "b", "i", "n", " ", "A", "1", "c">>>>,
      <<<<"a", "1", "c">>,
        <<"H", "e", "m", "o", "g", "l", "o", "b", "i", "n", " ", "A", "1", "c">>>>
    }

\* the own properties of the standardizations object, as <<key, canonical>>
standardizations ==
    {
      <<<<"w", "b", "c">>,
        <<"W", "h", "i", "t", "e", " ", "B", "l", "o", "o", "d", " ", "C", "e", "l", "l", " ", "C", "o", "u", "n", "t">>>>,
      <<<<"w", "h", "i", "t", "e", " ", "b", "l", "o", "o", "d", " ", "c", "e", "l", "l", "s">>,
        <<"W", "h", "i", "t", "e", " ", "B", "l", "o", "o", "d", " ", "C", "e", "l", "l", " ", "C", "o", "u", "n", "t">>>>,
      <<<<"l", "e", "u", "k", "o", "c", "y", "t", "e", "s">>,
        <<"W", "h", "i", "t", "e", " ", "B", "l", "o", "o", "d", " ", "C", "e", "l", "l", " ", "C", "o", "u", "n", "t">>>>,
      <<<<"r", "b", "c">>,
        <<"R", "e", "d", " ", "B", "l", "o", "o", "d", " ", "C", "e", "l", "l", " ", "C", "o", "u", "n", "t">>>>,
      <<<<"r", "e", "d", " ", "b", "l", "o", "o", "d", " ", "c", "e", "l", "l", "s">>,
        <<"R", "e", "d", " ", "B", "l", "o", "o", "d", " ", "C", "e", "l", "l", " ", "C", "o", "u", "n", "t">>>>,
      <<<<"h", "g", "b">>,
        <<"H", "e", "m", "o", "g", "l", "o", "b", "i", "n">>>>,
      <<<<"h", "b">>,
        <<"H", "e", "m", "o", "g", "l", "o", "b", "i", "n">>>>,
      <<<<"h", "c", "t">>,
        <<"H", "e", "m", "a", "t", "o", "c", "r", "i", "t">>>>,
      <<<<"p", "l", "t">>,
        <<"P", "l", "a", "t", "e", "l", "e", "t", " ", "C", "o", "u", "n", "t">>>>,
      <<<<"p", "l", "a", "t", "e", "l", "e", "t", "s">>,
        <<"P", "l", "a", "t", "e", "l", "e", "t", " ", "C", "o", "u", "n", "t">>>>,
      <<<<"m", "c", "v">>,
        <<"M", "e", "a", "n", " ", "C", "o", "r", "p", "u", "s", "c", "u", "l", "a", "r", " ", "V", "o", "l", "u", "m", "e">>>>,
      <<<<"m", "c", "h">>,
        <<"M", "e", "a", "n", " ", "C", "o", "r", "p", "u", "s", "c", "u", "l", "a", "r", " ", "H", "e", "m", "o", "g", "l", "o", "b", "i", "n">>>>,
      <<<<"m", "c", "h", "c">>,
        <<"M", "e", "a", "n", " ", "C", "o", "r", "p", "u", "s", "c", "u", "l", "a", "r", " ", "H", "e", "m", "o", "g", "l", "o", "b", "i", "n", " ", "C", "o", "n", "c", "e", "n", "t", "r", "a", "t", "i", "o", "n">>>>,
      <<<<"r", "d", "w">>,
        <<"R", "e", "d", " ", "C", "e", "l", "l", " ", "D", "i", "s", "t", "r", "i", "b", "u", "t", "i", "o", "n", " ", "W", "i", "d", "t", "h">>>>,
      <<<<"g", "l", "u">>,
        <<"G", "l", "u", "c", "o", "s", "e">>>>,
      <<<<"g", "l", "u", "c", "o", "s", "e">>,
        <<"G", "l", "u", "c", "o", "s", "e">>>>,
      <<<<"b", "l", "o", "o", "d", " ", "s", "u", "g", "a", "r">>,
        <<"G", "l", "u", "c", "o", "s", "e">>>>,
      <<<<"b", "u", "n">>,
        <<"B", "l", "o", "o", "d", " ", "U", "r", "e", "a", " ", "N", "i", "t", "r", "o", "g", "e", "n">>>>,
      <<<<"c", "r">>,
        <<"C", "r", "e", "a", "t", "i", "n", "i", "n", "e">>>>,
      <<<<"c", "r", "e", "a", "t">>,
        <<"C", "r", "e", "a", "t", "i", "n", "i", "n", "e">>>>,
      <<<<"n", "a">>,
        <<"S", "o", "d", "i", "u", "m">>>>,
      <<<<"k">>,
        <<"P", "o", "t", "a", "s", "s", "i", "u", "m">>>>,
      <<<<"c", "l">>,
        <<"C", "h", "l", "o", "r", "i", "d", "e">>>>,
      <<<<"c", "o", "2">>,
        <<"C", "a", "r", "b", "o", "n", " ", "D", "i", "o", "x", "i", "d", "e">>>>,
      <<<<"c", "h", "o", "l">>,
        <<"T", "o", "t", "a", "l", " ", "C", "h", "o", "l", "e", "s", "t", "e", "r", "o", "l">>>>,
      <<<<"c", "h", "o", "l", "e", "s", "t", "e", "r", "o", "l">>,
        <<"T", "o", "t", "a", "l", " ", "C", "h", "o", "l", "e", "s", "t", "e", "r", "o", "l">>>>,
      <<<<"h", "d", "l">>,
        <<"H", "D", "L", " ", "C", "h", "o", "l", "e", "s", "t", "e", "r", "o", "l">>>>,
      <<<<"l", "d", "l">>,
        <<"L", "D", "L", " ", "C", "h", "o", "l", "e", "s", "t", "e", "r", "o", "l">>>>,
      <<<<"t", "r", "i", "g">>,
        <<"T", "r", "i", "g", "l", "y", "c", "e", "r", "i", "d", "e", "s">>>>,
      <<<<"t", "r", "i", "g", "l", "y", "c", "e", "r", "i", "d", "e", "s">>,
        <<"T", "r", "i", "g", "l", "y", "c", "e", "r", "i", "d", "e", "s">>>>,
      <<<<"a", "l", "t">>,
        <<"A", "l", "a", "n", "i", "n", "e", " ", "A", "m", "i", "n", "o", "t", "r", "a", "n", "s", "f", "e", "r", "a", "s", "e">>>>,
      <<<<"s", "g", "p", "t">>,
        <<"A", "l", "a", "n", "i", "n", "e", " ", "A", "m", "i", "n", "o", "t", "r", "a", "n", "s", "f", "e", "r", "a", "s", "e">>>>,
      <<<<"a", "s", "t">>,
        <<"A", "s", "p", "a", "r", "t", "a", "t", "e", " ", "A", "m", "i", "n", "o", "t", "r", "a", "n", "s", "f", "e", "r", "a", "s", "e">>>>,
      <<<<"s", "g", "o", "t">>,
        <<"A", "s", "p", "a", "r", "t", "a", "t", "e", " ", "A", "m", "i", "n", "o", "t", "r", "a", "n", "s", "f", "e", "r", "a", "s", "e">>>>,
      <<<<"a", "l", "k", "p">>,
        <<"A", "l", "k", "a", "l", "i", "n", "e", " ", "P", "h", "o", "s", "p", "h", "a", "t", "a", "s", "e">>>>,
      <<<<"a", "l", "p">>,
        <<"A", "l", "k", "a", "l", "i", "n", "e", " ", "P", "h", "o", "s", "p", "h", "a", "t", "a", "s", "e">>>>,
      <<<<"t", "b", "i", "l", "i">>,
        <<"T", "o", "t", "a", "l", " ", "B", "i", "l", "i", "r", "u", "b", "i", "n">>>>,
      <<<<"b", "i", "l", "i", "r", "u", "b", "i", "n">>,
        <<"T", "o", "t", "a", "l", " ", "B", "i", "l", "i", "r", "u", "b", "i", "n">>>>,
      <<<<"t", "s", "h">>,
        <<"T", "h", "y", "r", "o", "i", "d", " ", "S", "t", "i", "m", "u", "l", "a", "t", "i", "n", "g", " ", "H", "o", "r", "m", "o", "n", "e">>>>,
      <<<<"t", "4">>,
        <<"T", "h", "y", "r", "o", "x", "i", "n", "e">>>>,
      <<<<"t", "3">>,
        <<"T", "r", "i", "i", "o", "d", "o", "t", "h", "y", "r", "o", "n", "i", "n", "e">>>>,
      <<<<"c", "k">>,
        <<"C", "r", "e", "a", "t", "i", "n", "e", " ", "K", "i", "n", "a", "s", "e">>>>,
      <<<<"c", "p", "k">>,
        <<"C", "r", "e", "a", "t", "i", "n", "e", " ", "K", "i", "n", "a", "s", "e">>>>,
      <<<<"c", "k", "-", "m", "b">>,
        <<"C", "r", "e", "a", "t", "i", "n", "e", " ", "K", "i", "n", "a", "s", "e", "-", "M", "B">>>>,
      <<<<"t", "r", "o", "p", "o", "n", "i", "n", " ", "i">>,
        <<"T", "r", "o", "p", "o", "n", "i", "n", " ", "I">>>>,
      <<<<"t", "r", "o", "p", "o", "n", "i", "n", " ", "t">>,
        <<"T", "r", "o", "p", "o", "n", "i", "n", " ", "T">>>>,
      <<<<"c", "r", "p">>,
        <<"C", "-", "R", "e", "a", "c", "t", "i", "v", "e", " ", "P", "r", "o", "t", "e", "i", "n">>>>,
      <<<<"e", "s", "r">>,
        <<"E", "r", "y", "t", "h", "r", "o", "c", "y", "t", "e", " ", "S", "e", "d", "i", "m", "e", "n", "t", "a", "t", "i", "o", "n", " ", "R", "a", "t", "e">>>>,
      <<<<"h", "b", "a", "1", "c">>,
        <<"H", "e", "m", "o", "g", "l", "o", "b", "i", "n", " ", "A", "1", "c">>>>,
      <<<<"a", "1", "c">>,
        <<"H", "e", "m", "o", "g", "l", "o", "b", "i", "n", " ", "A", "1", "c">>>>
    }

StandardizationKeys == { e[1] : e \in standardizations }

\* the properties an object literal inherits from Object.prototype whose
\* names are lower-case
ObjectPrototypeKeys ==
    { <<"c", "o", "n", "s", "t", "r", "u", "c", "t", "o", "r">>,
      <<"_", "_", "p", "r", "o", "t", "o", "_", "_">> }

\* standardizations[lowerName]
StandardizationLookup(lowerName) ==
    IF lowerName \in StandardizationKeys
    THEN Str((CHOOSE e \in standardizations : e[1] = lowerName)[2])
    ELSE IF lowerName \in ObjectPrototypeKeys THEN Obj(lowerName)
    ELSE Undefined

\* name.toLowerCase is not callable unless name is a string
StandardizeThrows(nm) == nm.t # "string"

standardizeBiomarkerName(nm) ==
    LET lowerName == Trim(toLowerCase(nm.s))
        found == StandardizationLookup(lowerName)
    IN  IF Truthy(found) THEN found ELSE nm

\* the outcome of a call that has not been made, and of one that threw
NotCalled == [t |-> "notCalled", s |-> <<>>, n |-> NaN, b |-> FALSE]
Threw == [t |-> "TypeError", s |-> <<>>, n |-> NaN, b |-> FALSE]

StandardizeCall(nm) ==
    IF StandardizeThrows(nm) THEN Threw ELSE standardizeBiomarkerName(nm)

\* names the extraction step can deliver: every synonym, every canonical
\* name, synonyms in other case or padded with blanks, names that only
\* contain a synonym, names outside the table
Names ==
    LET keys == StandardizationKeys
        canon == { e[2] : e \in standardizations }
        upper(c) == IF \E i \in 1..Len(LowerCase) : LowerCase[i] = c
                    THEN UpperCase[CHOOSE i \in 1..Len(LowerCase) : LowerCase[i] = c]
                    ELSE c
        toUpperCase(q) == [i \in 1..Len(q) |-> upper(q[i])]
    IN  { Str(q) : q \in keys \cup canon }
        \cup { Str(toUpperCase(q)) : q \in keys }
        \cup { Str(<<" ">> \o q \o <<" ", " ">>) : q \in keys }
        \cup { Str(q \o <<" ", "x">>) : q \in keys }
        \cup { Str(ExoticMarker), Str(<<>>), Str(<<" ">>),
               Str(<<"C", "o", "n", "s", "t", "r", "u", "c", "t", "o", "r">>),
               Str(<<"c", "o", "n", "s", "t", "r", "u", "c", "t", "o", "r">>),
               Str(<<"_", "_", "p", "r", "o", "t", "o", "_", "_">>),
               Str(<<"t", "o", "S", "t", "r", "i", "n", "g">>) }

NoStandardization ==
    /\ inputName = Undefined
    /\ standardized = NotCalled
    /\ restandardized = NotCalled

\* standardizeBiomarkerName(inputName)
Standardize ==
    /\ server \in {"simplified", "precision"}
    /\ inputName # Undefined /\ standardized = NotCalled
    /\ standardized' = StandardizeCall(inputName)
    /\ UNCHANGED <<server, inputName, restandardized, analyzeVars, postVars, unitVars,
                   datasetVars, extractVars, textVars, servingVars>>

\* standardizeBiomarkerName applied to the name it returned
Restandardize ==
    /\ server \in {"simplified", "precision"}
    /\ standardized # NotCalled /\ standardized # Threw
    /\ restandardized = NotCalled
    /\ restandardized' = StandardizeCall(standardized)
    /\ UNCHANGED <<server, inputName, standardized, analyzeVars, postVars, unitVars,
                   datasetVars, extractVars, textVars, servingVars>>

-----------------------------------------------------------------------------
(* Unit inference from a reference range: part_000:338-425.  The glyphs    *)
(* U+03BC, U+00B3 and U+00B0 are written "u03BC", "u00B3" and "u00B0".     *)

\* the regular expressions of unitPatterns, each a sequence of character
\* classes; a pattern with the i flag holds both cases of each letter
unitPatterns ==
    <<
      <<{"m"}, {"g"}, {"/"}, {"d"}, {"L", "l"}>>,
      <<{"g"}, {"/"}, {"d"}, {"L", "l"}>>,
      <<{"u03BC"}, {"g"}, {"/"}, {"L", "l"}>>,
      <<{"m"}, {"c"}, {"g"}, {"/"}, {"L", "l"}>>,
      <<{"n"}, {"g"}, {"/"}, {"m"}, {"L", "l"}>>,
      <<{"p"}, {"g"}, {"/"}, {"m"}, {"L", "l"}>>,
      <<{"I"}, {"U"}, {"/"}, {"L", "l"}>>,
      <<{"m"}, {"I"}, {"U"}, {"/"}, {"L", "l"}>>,
      <<{"U"}, {"/"}, {"L", "l"}>>,
      <<{"m"}, {"m"}, {"o"}, {"l"}, {"/"}, {"L", "l"}>>,
      <<{"u03BC"}, {"m"}, {"o"}, {"l"}, {"/"}, {"L", "l"}>>,
      <<{"n"}, {"m"}, {"o"}, {"l"}, {"/"}, {"L", "l"}>>,
      <<{"x"}, {"1"}, {"0"}, {"u00B3", "3"}, {"/"}, {"u03BC"}, {"L", "l"}>>,
      <<{"K"}, {"/"}, {"u03BC"}, {"L", "l"}>>,
      <<{"1"}, {"0"}, {"u00B3", "3"}, {"/"}, {"u03BC"}, {"L", "l"}>>,
      <<{"c"}, {"e"}, {"l"}, {"l"}, {"s"}, {"/"}, {"u03BC"}, {"L", "l"}>>,
      <<{"/"}, {"u03BC"}, {"L", "l"}>>,
      <<{"m"}, {"g"}, {"/"}, {"2"}, {"4"}, {"h"}>>,
      <<{"g"}, {"/"}, {"2"}, {"4"}, {"h"}>>,
      <<{"m"}, {"m"}, {"H"}, {"g"}>>,
      <<{"b"}, {"p"}, {"m"}>>,
      <<{"u00B0"}, {"C", "F"}>>,
      <<{"%"}>>,
      <<{"R", "r"}, {"A", "a"}, {"T", "t"}, {"I", "i"}, {"O", "o"}>>,
      <<{"I", "i"}, {"N", "n"}, {"D", "d"}, {"E", "e"}, {"X", "x"}>>,
      <<{"s"}, {"e"}, {"c"}>>,
      <<{"m"}, {"i"}, {"n"}>>,
      <<{"F", "f"}, {"L", "l"}>>,
      <<{"P", "p"}, {"G", "g"}>>
    >>

\* the pattern matches the characters of text from position p on
MatchesAt(text, p, pattern) ==
    /\ p + Len(pattern) - 1 <= Len(text)
    /\ \A i \in 1..Len(pattern) : text[p + i - 1] \in pattern[i]

PatternMatches(text, pattern) == \E p \in 1..Len(text) : MatchesAt(text, p, pattern)

MatchPosition(text, pattern) ==
    CHOOSE p \in 1..Len(text) :
        /\ MatchesAt(text, p, pattern)
        /\ \A q \in 1..(p - 1) : ~MatchesAt(text, q, pattern)

\* referenceRange.match(pattern)[0]: the leftmost match
FirstMatch(text, pattern) ==
    LET p == MatchPosition(text, pattern)
    IN  SubSeq(text, p, p + Len(pattern) - 1)

\* the match that starts first in the text, whatever its pattern
FixedPatternUnitByTextPosition(text) ==
    LET hits == { i \in 1..Len(unitPatterns) : PatternMatches(text, unitPatterns[i]) }
    IN  IF hits = {} THEN Null
        ELSE LET i == CHOOSE h \in hits :
                          \A g \in hits :
                              \/ MatchPosition(text, unitPatterns[h]) < MatchPosition(text, unitPatterns[g])
                              \/ /\ MatchPosition(text, unitPatterns[h]) = MatchPosition(text, unitPatterns[g])
                                 /\ h <= g
             IN  Str(FirstMatch(text, unitPatterns[i]))

\* the loop of part_000:377-382: the first match of the first pattern that
\* matches, Null when the loop ends without a return
FixedPatternUnit(text) ==
    LET hits == { i \in 1..Len(unitPatterns) : PatternMatches(text, unitPatterns[i]) }
    IN  IF hits = {} THEN Null
        ELSE LET i == CHOOSE h \in hits : \A g \in hits : h <= g
             IN  Str(FirstMatch(text, unitPatterns[i]))

Letters == { UpperCase[i] : i \in 1..Len(UpperCase) } \cup { LowerCase[i] : i \in 1..Len(LowerCase) }

\* length of the run of letters that starts at position p
RECURSIVE LetterRun(_, _)
LetterRun(text, p) ==
    IF p <= Len(text) /\ text[p] \in Letters THEN 1 + LetterRun(text, p + 1) ELSE 0

\* \b between positions p - 1 and p
WordBoundary(text, p) ==
    LET WordChars == Letters \cup Digits \cup {"_"}
    IN  (p > 1 /\ text[p - 1] \in WordChars) # (p <= Len(text) /\ text[p] \in WordChars)

\* [a-zA-Z]+\/[a-zA-Z]+\b from position p: the position after the match, 0
\* for no match
SlashUnitEnd(text, p) ==
    LET r1 == LetterRun(text, p)
        slash == p + r1
        r2 == LetterRun(text, slash + 1)
        end == slash + 1 + r2
    IN  IF /\ r1 >= 1
           /\ slash <= Len(text) /\ text[slash] = "/"
           /\ r2 >= 1
           /\ WordBoundary(text, end)
        THEN end ELSE 0

\* [a-zA-Z]{1,5}\b(?=\s|$) from position p: the position after the match
ShortWordEnd(text, p) ==
    LET r == LetterRun(text, p)
        end == p + r
    IN  IF /\ r >= 1 /\ r <= 5
           /\ WordBoundary(text, end)
           /\ (end > Len(text) \/ text[end] \in WhiteSpace)
        THEN end ELSE 0

\* fallbackPattern from position p: the position after the match of the
\* first alternative that matches, 0 for no match
FallbackEnd(text, p) ==
    IF ~WordBoundary(text, p) THEN 0
    ELSE IF SlashUnitEnd(text, p) > 0 THEN SlashUnitEnd(text, p)
    ELSE IF text[p] = "u03BC" /\ SlashUnitEnd(text, p + 1) > 0 THEN SlashUnitEnd(text, p + 1)
    ELSE ShortWordEnd(text, p)

\* referenceRange.match(fallbackPattern): the matches from position p on
RECURSIVE FallbackMatches(_, _)
FallbackMatches(text, p) ==
    IF p > Len(text) THEN <<>>
    ELSE IF FallbackEnd(text, p) > 0
    THEN <<SubSeq(text, p, FallbackEnd(text, p) - 1)>> \o FallbackMatches(text, FallbackEnd(text, p))
    ELSE FallbackMatches(text, p + 1)

nonUnits ==
    { <<"n", "o", "r", "m", "a", "l">>,
      <<"a", "b", "n", "o", "r", "m", "a", "l">>,
      <<"h", "i", "g", "h">>,
      <<"l", "o", "w">>,
      <<"r", "a", "n", "g", "e">>,
      <<"r", "e", "f", "e", "r", "e", "n", "c", "e">>,
      <<"a", "d", "u", "l", "t">>,
      <<"m", "a", "l", "e">>,
      <<"f", "e", "m", "a", "l", "e">>,
      <<"y", "e", "a", "r", "s">>,
      <<"o", "l", "d">>,
      <<"s", "e", "e", "n">>,
      <<"n", "o", "n", "e">>,
      <<"f", "e", "w">>,
      <<"m", "a", "n", "y">>,
      <<"r", "a", "r", "e">>,
      <<"m", "o", "d", "e", "r", "a", "t", "e">>,
      <<"n", "e", "g", "a", "t", "i", "v", "e">>,
      <<"p", "o", "s", "i", "t", "i", "v", "e">> }

\* part_000:384-424
FallbackUnit(text) ==
    LET filteredMatches ==
            SelectSeq(FallbackMatches(text, 1),
                      LAMBDA match : /\ toLowerCase(match) \notin nonUnits
                                     /\ Len(match) <= 8
                                     /\ \E i \in 1..Len(match) : match[i] \in Letters)
    IN  IF filteredMatches # <<>> THEN Str(filteredMatches[1]) ELSE Null

extractUnitFromReferenceRange(range) ==
    IF ~Truthy(range) \/ range.t # "string" THEN Null
    ELSE IF FixedPatternUnit(range.s) # Null THEN FixedPatternUnit(range.s)
    ELSE FallbackUnit(range.s)

\* most pieces of text in a generated reference range
MaxRangeTokens == 3

RECURSIVE Concat(_)
Concat(parts) == IF parts = <<>> THEN <<>> ELSE Head(parts) \o Concat(Tail(parts))

\* ranges made of up to MaxRangeTokens pieces of text, and values that are no
\* text
ReferenceRanges ==
    LET RangeTokens ==
            { <<"m", "g", "/", "d", "L">>,
              <<"g", "/", "d", "l">>,
              <<"%">>,
              <<"I", "U", "/", "L">>,
              <<"m", "i", "n">>,
              <<" ">>,
              <<"7", "-", "9">>,
              <<"n", "o", "r", "m", "a", "l">>,
              <<"u03BC", "k", "a", "t", "/", "L">> }
    IN  { Str(Concat(parts)) : parts \in SeqsUpTo(RangeTokens, MaxRangeTokens) }
        \cup { Null, Number(Finite(5, 0)) }

NoUnitExtraction ==
    /\ referenceRange = Undefined
    /\ extractedUnit = NotCalled

\* extractUnitFromReferenceRange(referenceRange)
ExtractUnit ==
    /\ server = "simplified"
    /\ extractedUnit = NotCalled
    /\ extractedUnit' = extractUnitFromReferenceRange(referenceRange)
    /\ UNCHANGED <<server, referenceRange, analyzeVars, postVars, nameVars,
                   datasetVars, extractVars, textVars, servingVars>>

-----------------------------------------------------------------------------
(* Post-processing of extracted biomarkers *)

\* longest value text drawn from ValueAlphabet
MaxValueLen == 3

ValueAlphabet == {"0", "5", ".", "<", "u2265", " ", "-", "e", "N"}

NoneSeen == <<"N", "O", "N", "E", " ", "S", "E", "E", "N">>

\* the values of the specification's numeric-parse examples
ExampleValues ==
    { <<"<", "0", ".", "5">>, <<">", "1", "0", "0">>, <<"1", "4", ".", "5">>,
      NoneSeen }

\* what the extraction step hands over as a biomarker's value: a text, null,
\* nothing, or a value of another type
ExtractedValues ==
    { Str(q) : q \in SeqsUpTo(ValueAlphabet, MaxValueLen) \cup ExampleValues }
    \cup { Null, Undefined, Number(Finite(0, 0)), Number(Finite(5, 0)),
           Bool(TRUE), Bool(FALSE) }

\* an extracted record; a field the record lacks is Undefined
Biomarker(nm, group, unit, value, range) ==
    [name |-> nm, group |-> group, unit |-> unit, value |-> value,
     referenceRange |-> range]

Cbc == <<"C", "B", "C">>
MgPerDl == <<"m", "g", "/", "d", "L">>
GlucoseRange == <<"7", "0", "-", "9", "9", " ", "m", "g", "/", "d", "L">>

\* records that differ in their value, and records that differ in their
\* other fields
Biomarkers ==
    { Biomarker(Str(Glucose), g, Undefined, v, Undefined) :
          g \in {Undefined, Str(Cbc)}, v \in ExtractedValues }
    \cup { Biomarker(nm, g, u, v, r) :
              nm \in {Str(<<"w", "b", "c">>), Str(ExoticMarker), Str(<<>>), Undefined},
              g \in {Undefined, Str(Cbc), Str(<<>>)},
              u \in {Undefined, Null, Str(<<>>), Str(Mg)},
              v \in {Str(<<"1", "0", "5">>), Str(<<>>), Null},
              r \in {Undefined, Null, Str(<<>>), Str(GlucoseRange),
                     Str(<<"n", "o", "r", "m", "a", "l">>)} }

NoBiomarker == Biomarker(Undefined, Undefined, Undefined, Undefined, Undefined)
NoProcessed ==
    [name |-> Undefined, group |-> Undefined, unit |-> Undefined, value |-> Undefined,
     numericValue |-> Undefined, referenceRange |-> Undefined]

\* the class of /[<>≤≥]/
OperatorGlyphs == {"<", ">", "u2264", "u2265"}

\* cleanValue.match(/^(\d+\.?\d*)/): the matched text, or <<>> for no match
NumericMatch(cleanValue) ==
    LET ni == DigitRun(cleanValue)
        rest == Drop(cleanValue, ni)
        dot == rest # <<>> /\ Head(rest) = "."
        nf == IF dot THEN DigitRun(Tail(rest)) ELSE 0
    IN  IF ni = 0 THEN <<>>
        ELSE Take(cleanValue, ni + (IF dot THEN 1 + nf ELSE 0))

\* calling value.replace: a TypeError unless value is a string
ReplaceThrows(value) == value.t # "string"

\* part_000:451-458: the outcome for one biomarker value
PostProcessNumeric(value) ==
    IF ~Truthy(value) THEN [thrown |-> FALSE, numericValue |-> Null]
    ELSE IF ReplaceThrows(value) THEN [thrown |-> TRUE, numericValue |-> Null]
    ELSE LET cleanValue == Trim(RemoveChars(value.s, OperatorGlyphs))
             numericMatch == NumericMatch(cleanValue)
         IN  IF numericMatch # <<>> /\ ~isNaN(ParseFloatStr(numericMatch))
             THEN [thrown |-> FALSE, numericValue |-> Number(ParseFloatStr(numericMatch))]
             ELSE [thrown |-> FALSE, numericValue |-> Null]

\* part_000:1466-1469: the outcome for one biomarker value
CleanNumeric(value) ==
    IF ~Truthy(value) THEN [thrown |-> FALSE, numericValue |-> Null]
    ELSE IF ReplaceThrows(value) THEN [thrown |-> TRUE, numericValue |-> Null]
    ELSE LET parsed == ParseFloatStr(RemoveChars(value.s, OperatorGlyphs))
         IN  IF ~isNaN(parsed)
             THEN [thrown |-> FALSE, numericValue |-> Number(parsed)]
             ELSE [thrown |-> FALSE, numericValue |-> Null]

\* a || ""
OrEmpty(v) == IF Truthy(v) THEN v ELSE Str(<<>>)

\* part_000:441-449: the unit after the back-fill from the reference range
BackfillUnit(unit, range) ==
    IF ~Truthy(unit) /\ Truthy(range) /\ Truthy(extractUnitFromReferenceRange(range))
    THEN extractUnitFromReferenceRange(range)
    ELSE unit

\* the map callback of postProcessBiomarkers, part_000:431-461: the record it
\* returns, or the TypeError it raises
PostProcessOne(b) ==
    LET r == PostProcessNumeric(b.value)
        nm == OrEmpty(b.name)
    IN  IF StandardizeThrows(nm) \/ r.thrown
        THEN [thrown |-> TRUE, record |-> NoProcessed]
        ELSE [thrown |-> FALSE,
              record |-> [name |-> standardizeBiomarkerName(nm),
                          group |-> OrNull(b.group),
                          unit |-> BackfillUnit(OrNull(b.unit), OrNull(b.referenceRange)),
                          value |-> OrNull(b.value),
                          numericValue |-> r.numericValue,
                          referenceRange |-> OrNull(b.referenceRange)]]

\* the map callback of the precision extract route, part_000:1457-1472; the
\* record it builds has no referenceRange
CleanOne(b) ==
    LET r == CleanNumeric(b.value)
    IN  IF StandardizeThrows(b.name) \/ r.thrown
        THEN [thrown |-> TRUE, record |-> NoProcessed]
        ELSE [thrown |-> FALSE,
              record |-> [name |-> standardizeBiomarkerName(b.name),
                          group |-> OrNull(b.group),
                          unit |-> OrNull(b.unit),
                          value |-> OrNull(b.value),
                          numericValue |-> r.numericValue,
                          referenceRange |-> Undefined]]

\* postProcessBiomarkers applied to one extracted record
PostProcessBiomarker ==
    /\ server = "simplified"
    /\ biomarker # NoBiomarker
    /\ processed = NoProcessed /\ ~thrown
    /\ thrown' = PostProcessOne(biomarker).thrown
    /\ processed' = PostProcessOne(biomarker).record
    /\ UNCHANGED <<server, biomarker, analyzeVars, nameVars, unitVars, datasetVars, extractVars,
                   textVars, servingVars>>

\* the precision route's post-processing applied to one extracted record
CleanBiomarker ==
    /\ server = "precision"
    /\ biomarker # NoBiomarker
    /\ processed = NoProcessed /\ ~thrown
    /\ thrown' = CleanOne(biomarker).thrown
    /\ processed' = CleanOne(biomarker).record
    /\ UNCHANGED <<server, biomarker, analyzeVars, nameVars, unitVars, datasetVars, extractVars,
                   textVars, servingVars>>

-----------------------------------------------------------------------------
(* The reference dataset: index.js:219-252, part_000:467-537 and           *)
(* part_000:1320-1372.  A sheet row holds, for each column, the cell found *)
(* under either spelling of its header: a text, or null for an empty cell  *)
(* (defval: null).                                                         *)

\* most rows in a generated sheet
MaxRows == 2

Quote == "\""

SheetRow(marker, gender, min, max, severity) ==
    [marker |-> marker, gender |-> gender, min |-> min, max |-> max,
     severity |-> severity]

SheetRows ==
    LET markers == { Null, Str(<<>>), Str(<<" ">>), Str(<<"H", "b">>),
                     Str(<<" ", "a", Quote, "b", " ">>) }
        minimums == { Null, Str(<<"5">>), Str(<<"5", Quote>>), Str(<<"1", ",", "5">>) }
    IN  { SheetRow(m, Str(<<"M", "a", "l", "e">>), mn, Str(<<"9">>), Str(<<"2">>)) :
              m \in markers, mn \in minimums }

Sheets == SeqsUpTo(SheetRows, MaxRows)

NotLoaded == [loaded |-> FALSE, rows |-> <<>>]
Loaded(rows) == [loaded |-> TRUE, rows |-> rows]

\* the filter of part_000:482-486
HasMarker(row) ==
    LET marker == row.marker
    IN  Truthy(marker) /\ Len(Trim(marker.s)) > 0

\* the map of part_000:487-500
CleanRow(row) ==
    SheetRow(Str(Trim(OrEmpty(row.marker).s)),
             Str(Trim(toLowerCase(OrEmpty(row.gender).s))),
             OrEmpty(row.min), OrEmpty(row.max), OrEmpty(row.severity))

\* loadDatasetWithPrecision, for a file that exists
loadDatasetWithPrecision(rawData) ==
    LET kept == SelectSeq(rawData, HasMarker)
    IN  [i \in 1..Len(kept) |-> CleanRow(kept[i])]

\* loadDatasetRows, for a file that exists: the rows of the sheet as they are
loadDatasetRows(rawData) == rawData

\* a ?? ""
NullishEmpty(v) == IF v.t \in {"undefined", "null"} THEN Str(<<>>) ELSE v

\* `${v}` for a text, null or undefined
TemplateText(v) ==
    CASE v.t = "string" -> v.s
      [] v.t = "null" -> <<"n", "u", "l", "l">>
      [] OTHER -> <<"u", "n", "d", "e", "f", "i", "n", "e", "d">>

\* items.join(sep)
RECURSIVE Join(_, _)
Join(items, sep) ==
    IF items = <<>> THEN <<>>
    ELSE IF Len(items) = 1 THEN items[1]
    ELSE items[1] \o sep \o Join(Tail(items), sep)

\* text.replace(/"/g, '""')
RECURSIVE DoubleQuotes(_)
DoubleQuotes(text) ==
    IF text = <<>> THEN <<>>
    ELSE (IF Head(text) = Quote THEN <<Quote, Quote>> ELSE <<Head(text)>>)
         \o DoubleQuotes(Tail(text))

\* `"${text}"`
Quoted(text) == <<Quote>> \o text \o <<Quote>>

\* part_000:510-519 and part_000:1357
Headers(srv) ==
    IF srv = "simplified"
    THEN << <<"M", "a", "r", "k", "e", "r">>, <<"G", "e", "n", "d", "e", "r">>,
            <<"M", "i", "n">>, <<"M", "a", "x">>, <<"G", "r", "o", "u", "p">>,
            <<"H", "i", "g", "h">>, <<"L", "o", "w">>,
            <<"S", "e", "v", "e", "r", "i", "t", "y">> >>
    ELSE << <<"M", "a", "r", "k", "e", "r">>, <<"G", "e", "n", "d", "e", "r">>,
            <<"M", "i", "n">>, <<"M", "a", "x">>,
            <<"S", "e", "v", "e", "r", "i", "t", "y">> >>

\* csvRow of part_000:523-532: the loaded rows have no group, high or low
SimplifiedCsvRow(row) ==
    <<Quoted(DoubleQuotes(row.marker.s)), Quoted(TemplateText(row.gender)),
      Quoted(TemplateText(row.min)), Quoted(TemplateText(row.max)),
      Quoted(TemplateText(Undefined)), Quoted(TemplateText(Undefined)),
      Quoted(TemplateText(Undefined)), Quoted(TemplateText(row.severity))>>

\* csvRow of part_000:1361-1367
PrecisionCsvRow(row) ==
    <<Quoted(DoubleQuotes(row.marker.s)), Quoted(TemplateText(row.gender)),
      Quoted(TemplateText(row.min)), Quoted(TemplateText(row.max)),
      Quoted(TemplateText(row.severity))>>

\* the fields of the line of index.js:239-249
IndexCsvRow(r) ==
    <<TemplateText(NullishEmpty(r.marker)), TemplateText(NullishEmpty(r.gender)),
      TemplateText(NullishEmpty(r.min)), TemplateText(NullishEmpty(r.max)),
      TemplateText(NullishEmpty(r.severity))>>

CsvRow(srv, row) ==
    CASE srv = "simplified" -> SimplifiedCsvRow(row)
      [] srv = "precision" -> PrecisionCsvRow(row)
      [] OTHER -> IndexCsvRow(row)

RECURSIVE CsvLines(_, _)
CsvLines(srv, rows) ==
    IF rows = <<>> THEN <<>>
    ELSE <<Join(CsvRow(srv, Head(rows)), <<",">>)>> \o CsvLines(srv, Tail(rows))

\* generatePrecisionCSV and generateDatasetCSV: the header line and one line
\* per row, joined by "\n"
generateCSV(srv, rows) ==
    Join(<<Join(Headers(srv), <<",">>)>> \o CsvLines(srv, rows), <<"\n">>)

NoDataset ==
    /\ sheet = <<>>
    /\ datasetRows = NotLoaded
    /\ csv = <<>>

\* the dataset loader of the running server, for a workbook that exists
LoadDataset ==
    /\ ~datasetRows.loaded
    /\ datasetRows' = Loaded(IF server = "index" THEN loadDatasetRows(sheet)
                             ELSE loadDatasetWithPrecision(sheet))
    /\ UNCHANGED <<server, sheet, csv, analyzeVars, postVars, nameVars, unitVars,
                   extractVars, textVars, servingVars>>

\* the CSV generator of the running server applied to the loaded rows
GenerateCSV ==
    /\ datasetRows.loaded /\ csv = <<>>
    /\ csv' = generateCSV(server, datasetRows.rows)
    /\ UNCHANGED <<server, sheet, datasetRows, analyzeVars, postVars, nameVars,
                   unitVars, extractVars, textVars, servingVars>>

-----------------------------------------------------------------------------
(* The /extractReportGemini handler: index.js:80-210, part_000:541-660 and *)
(* part_000:1376-1489                                                      *)

\* part_000:572 and part_000:1402
MinReadableChars == 100
\* index.js:120, part_000:580 and part_000:1410
MAX_CHARS == 3500000

Pdf == "application/pdf"
Docx == "application/vnd.openxmlformats-officedocument.wordprocessingml.document"
Png == "image/png"
PlainText == "text/plain"

NoFile == "none"

\* req.file: absent, or the stored upload with its mimetype
Uploads ==
    {NoFile, Pdf, Docx,
     "application/vnd.openxmlformats-officedocument.wordprocessingml.template",
     "application/msword", Png, PlainText}

\* mimetype.includes("wordprocessingml")
IncludesWordprocessingml(mimetype) ==
    mimetype \in {Docx,
                  "application/vnd.openxmlformats-officedocument.wordprocessingml.template"}

\* a branch that also reads plain text
DocumentKindReadsPlainText(mimetype) ==
    IF mimetype = Pdf THEN "pdf"
    ELSE IF IncludesWordprocessingml(mimetype) \/ mimetype = PlainText THEN "word"
    ELSE "unsupported"

\* the branches of index.js:96-111, part_000:558-566 and part_000:1388-1396
DocumentKind(mimetype) ==
    IF mimetype = Pdf THEN "pdf"
    ELSE IF mimetype = Docx \/ IncludesWordprocessingml(mimetype) THEN "word"
    ELSE "unsupported"

\* what pdfParse or mammoth settle with: a rejection, or a text whose length
\* after the handler's cleaning is given
NoText == -1
TextOutcomes ==
    {NoText, 0, MinReadableChars - 1, MinReadableChars, MAX_CHARS, MAX_CHARS + 1}

\* the model's replies to the extraction prompt
ExtractReplies ==
    LET numericValued == Biomarker(Str(Glucose), Undefined, Undefined,
                                   Number(Finite(5, 0)), Undefined)
        nameless == Biomarker(Undefined, Undefined, Null, Str(<<"7">>), Str(GlucoseRange))
        glucose == Biomarker(Str(<<"g", "l", "u">>), Str(Cbc), Null,
                             Str(<<"1", "0", "5">>), Str(GlucoseRange))
    IN  { [kind |-> k, hasBiomarkers |-> FALSE, biomarkers |-> <<>>] :
              k \in {"rejected", "blocked", "truncated", "malformed", "json"} }
        \cup { [kind |-> "json", hasBiomarkers |-> TRUE, biomarkers |-> bs] :
                   bs \in SeqsUpTo({numericValued, nameless, glucose}, MaxPool) }

\* errors raised inside the handler's try block
UnsupportedTypeError(srv) ==
    [name |-> "Error",
     text |-> IF srv = "index"
              THEN "Unsupported file type. Only PDF and DOCX documents are supported."
              ELSE "Unsupported file type. Only PDF and DOCX supported.",
     code |-> "none"]
TextExtractionError == [name |-> "Error", text |-> "text extraction failed", code |-> "none"]
PostProcessError == [name |-> "TypeError", text |-> "is not a function", code |-> "none"]

NoData == [present |-> FALSE, hasBiomarkers |-> FALSE, biomarkers |-> <<>>, totalBiomarkers |-> -1]

NoExtractResponse ==
    [status |-> 0, success |-> FALSE, error |-> "none", message |-> <<>>, data |-> NoData]

\* index.js:85-89
NoFileResponse ==
    [status |-> 400, success |-> FALSE, error |-> "No file uploaded.", message |-> <<>>,
     data |-> NoData]

\* part_000:572-577 and part_000:1402-1407
InsufficientTextResponse ==
    [status |-> 400, success |-> FALSE,
     error |-> "Insufficient readable text extracted from document.",
     message |-> <<>>, data |-> NoData]

\* the catch blocks of index.js:178-202, part_000:645-651, part_000:1477-1483
ExtractCatch(srv, err) ==
    [status |-> 500, success |-> FALSE, error |-> "none",
     message |-> IF srv # "index" THEN <<"Extraction failed: ", err.text>>
                 ELSE IF err.name = "SyntaxError" /\ err.text = "Unexpected end of JSON input"
                 THEN <<"Gemini extraction failed: ", err.text,
                        ". Raw response might be incomplete. Check server logs.">>
                 ELSE <<"Gemini extraction failed: ", err.text>>,
     data |-> NoData]

\* res.json({ success: true, data }); totalBiomarkers is -1 where the route
\* does not add it
ExtractSuccess(srv, hasBiomarkers, biomarkers) ==
    [status |-> 200, success |-> TRUE, error |-> "none", message |-> <<>>,
     data |-> [present |-> TRUE, hasBiomarkers |-> hasBiomarkers,
               biomarkers |-> biomarkers,
               totalBiomarkers |-> IF srv = "simplified" THEN Len(biomarkers) ELSE -1]]

\* the post-processing of a route applied to every extracted record
PostProcessAll(srv, biomarkers) ==
    CASE srv = "simplified" -> [i \in 1..Len(biomarkers) |-> PostProcessOne(biomarkers[i])]
      [] srv = "precision" -> [i \in 1..Len(biomarkers) |-> CleanOne(biomarkers[i])]
      [] OTHER -> [i \in 1..Len(biomarkers) |-> [thrown |-> FALSE, record |-> biomarkers[i]]]

\* a finally block that runs only when the try block threw
FinallyOnThrowOnly(exit) == exit = "throw"

\* the finally block runs however the try block is left
Finally(exit) == exit \in {"return", "throw", "completed"}

NoExtract ==
    /\ upload = NoFile
    /\ file = "none"
    /\ xpc = "idle"
    /\ rawTextLength = 0
    /\ modelCalls = 0
    /\ unlinkPending = FALSE
    /\ xres = NoExtractResponse
    /\ xreply = "none"
    /\ xsent = 0

\* the handler from the request to the awaited text extraction
ExtractRequest(up) ==
    /\ xpc = "idle"
    /\ upload' = up
    /\ IF up = NoFile
       THEN /\ xres' = NoFileResponse
            /\ xsent' = xsent + 1
            /\ xpc' = "done"
            /\ UNCHANGED <<file, unlinkPending>>
       ELSE /\ file' = "stored"
            /\ IF DocumentKind(up) = "unsupported"
               THEN /\ xres' = ExtractCatch(server, UnsupportedTypeError(server))
                    /\ xsent' = xsent + 1
                    /\ unlinkPending' = Finally("throw")
                    /\ xpc' = "done"
               ELSE /\ xpc' = "awaitText"
                    /\ UNCHANGED <<xres, xsent, unlinkPending>>
    /\ UNCHANGED <<server, rawTextLength, modelCalls, xreply, analyzeVars, postVars, nameVars,
                   unitVars, datasetVars, textVars, servingVars>>

\* the handler from the settled text extraction to the awaited model call
TextExtracted(outcome) ==
    /\ xpc = "awaitText"
    /\ IF outcome = NoText
       THEN /\ xres' = ExtractCatch(server, TextExtractionError)
            /\ xsent' = xsent + 1
            /\ unlinkPending' = Finally("throw")
            /\ xpc' = "done"
            /\ UNCHANGED <<rawTextLength, modelCalls>>
       ELSE IF server # "index" /\ outcome < MinReadableChars
       THEN /\ rawTextLength' = outcome
            /\ xres' = InsufficientTextResponse
            /\ xsent' = xsent + 1
            /\ unlinkPending' = Finally("return")
            /\ xpc' = "done"
            /\ UNCHANGED modelCalls
       ELSE /\ rawTextLength' = IF outcome > MAX_CHARS THEN MAX_CHARS ELSE outcome
            /\ modelCalls' = modelCalls + 1
            /\ xpc' = "awaitModel"
            /\ UNCHANGED <<xres, xsent, unlinkPending>>
    /\ UNCHANGED <<server, upload, file, xreply, analyzeVars, postVars, nameVars, unitVars,
                   datasetVars, textVars, servingVars>>

\* the handler from the model's reply to the response and the finally block
ExtractModelReply(reply) ==
    /\ xpc = "awaitModel"
    /\ xpc' = IF CatchRethrows(server, reply) THEN "threw" ELSE "done"
    /\ xreply' = reply.kind
    /\ xsent' = IF CatchRethrows(server, reply) THEN xsent ELSE xsent + 1
    /\ IF CatchRethrows(server, reply)
       THEN /\ xres' = xres
            /\ unlinkPending' = Finally("throw")
       ELSE IF reply.kind # "json"
       THEN /\ xres' = ExtractCatch(server, ReplyError(reply))
            /\ unlinkPending' = Finally("throw")
       ELSE LET done == PostProcessAll(server, reply.biomarkers)
            IN  IF \E i \in 1..Len(done) : done[i].thrown
                THEN /\ xres' = ExtractCatch(server, PostProcessError)
                     /\ unlinkPending' = Finally("throw")
                ELSE /\ xres' = ExtractSuccess(server, reply.hasBiomarkers,
                                               [i \in 1..Len(done) |-> done[i].record])
                     /\ unlinkPending' = Finally("completed")
    /\ UNCHANGED <<server, upload, file, rawTextLength, modelCalls, analyzeVars,
                   postVars, nameVars, unitVars, datasetVars, textVars, servingVars>>

\* the callback of fs.unlink: the uploaded file is gone
UnlinkCallback ==
    /\ unlinkPending
    /\ file' = "deleted"
    /\ unlinkPending' = FALSE
    /\ UNCHANGED <<server, upload, xpc, rawTextLength, modelCalls, xres, xreply, xsent,
                   analyzeVars, postVars, nameVars, unitVars, datasetVars, textVars, servingVars>>

-----------------------------------------------------------------------------
(* Text preprocessing: preprocessTextForPrecision, part_000:241-259 and    *)
(* part_000:1212-1244.  Each replace is a global regular-expression        *)
(* replace: matches are found left to right and do not overlap.            *)

\* the number of consecutive characters of the class from position p on
RECURSIVE RunAt(_, _, _)
RunAt(text, p, class) ==
    IF p <= Len(text) /\ text[p] \in class THEN 1 + RunAt(text, p + 1, class) ELSE 0

IsAt(text, p, class) == p >= 1 /\ p <= Len(text) /\ text[p] \in class

\* .replace(/[ \t]{2,}/g, " ")
RECURSIVE CollapseBlanks(_, _)
CollapseBlanks(text, p) ==
    IF p > Len(text) THEN <<>>
    ELSE LET n == RunAt(text, p, {" ", "\t"})
         IN  IF n >= 2 THEN <<" ">> \o CollapseBlanks(text, p + n)
             ELSE <<text[p]>> \o CollapseBlanks(text, p + 1)

\* .replace(/[class](?=\d)/g, digit): the lookahead reads the text the
\* replace was called on
ReplaceBeforeDigit(text, class, digit) ==
    [p \in 1..Len(text) |->
        IF text[p] \in class /\ IsAt(text, p + 1, Digits) THEN digit ELSE text[p]]

\* .replace(/(\d)[class](\d)/g, "$1" + digit + "$2"): a match consumes both
\* digits, so the search goes on after the second one
RECURSIVE ReplaceBetweenDigits(_, _, _, _)
ReplaceBetweenDigits(text, p, class, digit) ==
    IF p > Len(text) THEN <<>>
    ELSE IF IsAt(text, p, Digits) /\ IsAt(text, p + 1, class) /\ IsAt(text, p + 2, Digits)
    THEN <<text[p], digit, text[p + 2]>> \o ReplaceBetweenDigits(text, p + 3, class, digit)
    ELSE <<text[p]>> \o ReplaceBetweenDigits(text, p + 1, class, digit)

\* part_000:245-248: the four replaces of letters that stand in for digits
FixDigits(text) ==
    LET a == ReplaceBeforeDigit(text, {"O", "o"}, "0")
        b == ReplaceBeforeDigit(a, {"I", "l"}, "1")
        c == ReplaceBetweenDigits(b, 1, {"O", "o"}, "0")
    IN  ReplaceBetweenDigits(c, 1, {"I", "l"}, "1")

\* .replace(/prefix[Il]/g, prefix + "L")
RECURSIVE FixUnit(_, _, _)
FixUnit(text, p, prefix) ==
    IF p > Len(text) THEN <<>>
    ELSE IF IsAt(text, p + Len(prefix), {"I", "l"})
            /\ SubSeq(text, p, p + Len(prefix) - 1) = prefix
    THEN prefix \o <<"L">> \o FixUnit(text, p + Len(prefix) + 1, prefix)
    ELSE <<text[p]>> \o FixUnit(text, p + 1, prefix)

\* part_000:249-251
FixUnits(text) ==
    LET a == FixUnit(text, 1, <<"m", "g", "/", "d">>)
        b == FixUnit(a, 1, <<"u03BC", "g", "/">>)
    IN  FixUnit(b, 1, <<"m", "c", "g", "/">>)

\* where a match of \s*[:]\s*([<>]?\s*\d+\.?\d*) that starts at p has its
\* second group and its end, or <<>> when there is none; the white space
\* after the colon is taken by the first \s*, so the group starts after it
LabelValueAt(text, p) ==
    LET colon == p + RunAt(text, p, WhiteSpace)
        open == colon + 1 + RunAt(text, colon + 1, WhiteSpace)
        number == IF IsAt(text, open, {"<", ">"})
                  THEN open + 1 + RunAt(text, open + 1, WhiteSpace)
                  ELSE open
        int == RunAt(text, number, Digits)
        dot == IF IsAt(text, number + int, {"."}) THEN 1 ELSE 0
        stop == number + int + dot + RunAt(text, number + int + dot, Digits)
    IN  IF IsAt(text, colon, {":"}) /\ int > 0
        THEN <<open, stop>>
        ELSE <<>>

\* .replace(/([A-Za-z]+)\s*[:]\s*([<>]?\s*\d+\.?\d*)/g, "$1: $2")
RECURSIVE LabelSpacing(_, _)
LabelSpacing(text, p) ==
    IF p > Len(text) THEN <<>>
    ELSE LET n == RunAt(text, p, Letters)
             m == LabelValueAt(text, p + n)
         IN  IF n = 0 THEN <<text[p]>> \o LabelSpacing(text, p + 1)
             ELSE IF m = <<>> THEN SubSeq(text, p, p + n - 1) \o LabelSpacing(text, p + n)
             ELSE SubSeq(text, p, p + n - 1) \o <<":", " ">>
                  \o SubSeq(text, m[1], m[2] - 1) \o LabelSpacing(text, m[2])

\* a replace that leaves the white space after the colon in place
RECURSIVE ColonSpacingBeforeOnly(_, _)
ColonSpacingBeforeOnly(text, p) ==
    IF p > Len(text) THEN <<>>
    ELSE LET before == RunAt(text, p, WhiteSpace)
         IN  IF IsAt(text, p + before, {":"})
             THEN <<":", " ">> \o ColonSpacingBeforeOnly(text, p + before + 1)
             ELSE <<text[p]>> \o ColonSpacingBeforeOnly(text, p + 1)

\* .replace(/\s*:\s*/g, ": ")
RECURSIVE ColonSpacing(_, _)
ColonSpacing(text, p) ==
    IF p > Len(text) THEN <<>>
    ELSE LET before == RunAt(text, p, WhiteSpace)
             after == RunAt(text, p + before + 1, WhiteSpace)
         IN  IF IsAt(text, p + before, {":"})
             THEN <<":", " ">> \o ColonSpacing(text, p + before + 1 + after)
             ELSE <<text[p]>> \o ColonSpacing(text, p + 1)

\* .replace(/([<>])\s+(\d)/g, "$1$2")
RECURSIVE OperatorSpacing(_, _)
OperatorSpacing(text, p) ==
    IF p > Len(text) THEN <<>>
    ELSE LET gap == RunAt(text, p + 1, WhiteSpace)
         IN  IF text[p] \in {"<", ">"} /\ gap > 0 /\ IsAt(text, p + 1 + gap, Digits)
             THEN <<text[p], text[p + 1 + gap]>> \o OperatorSpacing(text, p + 2 + gap)
             ELSE <<text[p]>> \o OperatorSpacing(text, p + 1)

\* .replace(/\n{3,}/g, "\n\n")
RECURSIVE CollapseNewlines(_, _)
CollapseNewlines(text, p) ==
    IF p > Len(text) THEN <<>>
    ELSE LET n == RunAt(text, p, {"\n"})
         IN  IF n >= 3 THEN <<"\n", "\n">> \o CollapseNewlines(text, p + n)
             ELSE <<text[p]>> \o CollapseNewlines(text, p + 1)

\* part_000:252-256, applied to the text the earlier replaces produced
FixSpacing(text) ==
    Trim(CollapseNewlines(
             OperatorSpacing(ColonSpacing(LabelSpacing(text, 1), 1), 1), 1))

preprocessTextForPrecision(text) ==
    FixSpacing(FixUnits(FixDigits(CollapseBlanks(text, 1))))

\* most pieces of text in an extracted document
MaxTextTokens == 4

\* texts put together from pieces that the replaces look for, and texts
\* with the other spellings of those pieces
RawTexts ==
    LET pieces == { <<"O">>, <<"l">>, <<"5">>, <<"a">>, <<":">>, <<" ">>, <<"<">>,
                    <<"\n">>, <<"m", "g", "/", "d">> }
    IN  { Concat(q) : q \in SeqsUpTo(pieces, MaxTextTokens) }
        \cup { <<"o", "5">>, <<"I", "5">>, <<"5", "o", "5">>, <<"5", "I", "5">>,
               <<"5", "o">>, <<"5", "I">>, <<"1", "O", "2", "O", "3">>,
               <<"u03BC", "g", "/", "l">>, <<"m", "c", "g", "/", "I">>,
               <<"m", "g", "/", "d", "I">>,
               <<"H", "b", " ", "\t", ":", "\t", ">", " ", " ", "1", "2", ".", "5">>,
               <<"H", "b", ":", "1", "2", ".", " ", "p", "H", " ", ":", "x">>,
               <<"a", ":", "\n", "\n", "\n", "\n", "b", ":">>,
               <<">", "\n", "5">>, <<"<", "\t", "5", ":", "5">> }

NotProcessed == <<"not processed">>

NoPreprocessing ==
    /\ rawText = <<>>
    /\ digitsFixed = NotProcessed
    /\ preprocessed = NotProcessed

\* preprocessTextForPrecision(rawText); digitsFixed is the text after the
\* replaces of part_000:245-248
Preprocess ==
    /\ server \in {"simplified", "precision"}
    /\ preprocessed = NotProcessed
    /\ digitsFixed' = FixDigits(CollapseBlanks(rawText, 1))
    /\ preprocessed' = preprocessTextForPrecision(rawText)
    /\ UNCHANGED <<server, rawText, analyzeVars, postVars, nameVars, unitVars,
                   datasetVars, extractVars, servingVars>>

-----------------------------------------------------------------------------
(* Concurrent requests to the servers of part_000.  Every invocation of a   *)
(* handler has its own req, res and local variables (part_000:541-660,      *)
(* 662-756, 1376-1490, 1492-1630 declare nothing outside the handlers but   *)
(* constants); the invocations share the uploads directory and the dataset  *)
(* file.                                                                    *)

MaxRequests == 2
Requests == 1..MaxRequests

\* the names multer gives to the uploads it stores (part_000:22-25)
Paths == {"uploads/a", "uploads/b"}
NoPath == "none"

NoExtractReply == [kind |-> "none", hasBiomarkers |-> FALSE, biomarkers |-> <<>>]
NoReply == [kind |-> "none", out |-> NoOutput]

\* a request that has not arrived
NoRequest ==
    [route |-> "none", pc |-> "new", input |-> "none", path |-> NoPath,
     text |-> NoText, dataset |-> FALSE, xreply |-> NoExtractReply, reply |-> NoReply,
     xres |-> NoExtractResponse, res |-> NoResponse]

FreeFile == [state |-> "free", owner |-> 0, deleter |-> 0]

NoRequests ==
    /\ requests = [r \in Requests |-> NoRequest]
    /\ disk = [p \in Paths |-> FreeFile]
    /\ unlinks = {}

\* the inputs of the concurrent requests
ConcurrentUploads == {NoFile, Pdf, PlainText}
ConcurrentTexts == {NoText, MinReadableChars - 1, MinReadableChars}
ConcurrentExtractReplies == { reply \in ExtractReplies : reply.biomarkers = <<>> }
ConcurrentReplies ==
    { reply \in ModelReplies : reply.kind # "json" }
    \cup { [kind |-> "json", out |-> [evaluated |-> ev, unmatched |-> Arr(<<>>)]] :
               ev \in {Arr(<<>>), Arr(<<GlucoseExample>>), NotArray} }

\* a path variable that all invocations share: it holds the path of the
\* last of the requests that came with a file
filePathShared(reqs, r) ==
    LET withFile == { q \in Requests : reqs[q].path # NoPath }
    IN  reqs[CHOOSE q \in withFile : \A o \in withFile : o <= q].path

\* part_000:551 and part_000:1381: const filePath = path.resolve(req.file.path),
\* a constant of the invocation
filePath(reqs, r) == reqs[r].path

\* part_000:653-658 and part_000:1484-1489: the finally block calls fs.unlink
\* on filePath
UnlinkCalled(reqs, r, exit) ==
    IF Finally(exit) THEN unlinks \cup {[by |-> r, path |-> filePath(reqs, r)]} ELSE unlinks

\* multer stores the upload under a name of its own, and the extract handler
\* runs to its first await: part_000:541-562 and part_000:1376-1392
ServeExtract(r, up, p) ==
    /\ server # "index"
    /\ requests[r].pc = "new"
    /\ IF up = NoFile THEN p = NoPath ELSE p \in Paths /\ disk[p].state = "free"
    /\ LET rec == [requests[r] EXCEPT !.route = "extract", !.input = up, !.path = p]
       IN  IF up = NoFile
           THEN /\ requests' = [requests EXCEPT
                                  ![r] = [rec EXCEPT !.pc = "done", !.xres = NoFileResponse]]
                /\ UNCHANGED <<disk, unlinks>>
           ELSE /\ disk' = [disk EXCEPT ![p] = [state |-> "stored", owner |-> r, deleter |-> 0]]
                /\ IF DocumentKind(up) = "unsupported"
                   THEN /\ requests' =
                              [requests EXCEPT
                                 ![r] = [rec EXCEPT
                                           !.pc = "done",
                                           !.xres = ExtractCatch(server,
                                                                 UnsupportedTypeError(server))]]
                        /\ unlinks' = UnlinkCalled(requests', r, "throw")
                   ELSE /\ requests' = [requests EXCEPT ![r] = [rec EXCEPT !.pc = "awaitText"]]
                        /\ UNCHANGED unlinks
    /\ UNCHANGED <<server, analyzeVars, postVars, nameVars, unitVars, datasetVars,
                   extractVars, textVars>>

\* the extract handler from the settled text extraction to the awaited
\* model call: part_000:563-625 and part_000:1393-1450
TextSettled(r, outcome) ==
    /\ requests[r].route = "extract" /\ requests[r].pc = "awaitText"
    /\ LET rec == [requests[r] EXCEPT !.text = outcome]
       IN  IF outcome = NoText
           THEN /\ requests' =
                      [requests EXCEPT
                         ![r] = [rec EXCEPT !.pc = "done",
                                            !.xres = ExtractCatch(server, TextExtractionError)]]
                /\ unlinks' = UnlinkCalled(requests', r, "throw")
           ELSE IF outcome < MinReadableChars
           THEN /\ requests' =
                      [requests EXCEPT
                         ![r] = [rec EXCEPT !.pc = "done", !.xres = InsufficientTextResponse]]
                /\ unlinks' = UnlinkCalled(requests', r, "return")
           ELSE /\ requests' = [requests EXCEPT ![r] = [rec EXCEPT !.pc = "awaitModel"]]
                /\ UNCHANGED unlinks
    /\ UNCHANGED <<server, disk, analyzeVars, postVars, nameVars, unitVars, datasetVars,
                   extractVars, textVars>>

\* the extract handler from the model's reply to the response and the
\* finally block: part_000:626-658 and part_000:1451-1489
ExtractSettled(r, reply) ==
    /\ requests[r].route = "extract" /\ requests[r].pc = "awaitModel"
    /\ LET done == PostProcessAll(server, reply.biomarkers)
           failed == reply.kind = "json" /\ \E i \in 1..Len(done) : done[i].thrown
           answer == IF reply.kind # "json" THEN ExtractCatch(server, ReplyError(reply))
                     ELSE IF failed THEN ExtractCatch(server, PostProcessError)
                     ELSE ExtractSuccess(server, reply.hasBiomarkers,
                                         [i \in 1..Len(done) |-> done[i].record])
       IN  /\ requests' = [requests EXCEPT
                             ![r] = [@ EXCEPT !.pc = "done", !.xreply = reply, !.xres = answer]]
           /\ unlinks' = UnlinkCalled(requests', r,
                                      IF answer.success THEN "completed" ELSE "throw")
    /\ UNCHANGED <<server, disk, analyzeVars, postVars, nameVars, unitVars, datasetVars,
                   extractVars, textVars>>

\* the callback of one fs.unlink call: the file of that path is gone
UnlinkDone(u) ==
    /\ u \in unlinks
    /\ unlinks' = unlinks \ {u}
    /\ disk' = IF disk[u.path].state = "stored"
               THEN [disk EXCEPT ![u.path] = [@ EXCEPT !.state = "deleted", !.deleter = u.by]]
               ELSE disk
    /\ UNCHANGED <<server, requests, analyzeVars, postVars, nameVars, unitVars, datasetVars,
                   extractVars, textVars>>

\* the analyze handler to its awaited model call: part_000:662-699 and
\* part_000:1492-1529; the dataset file is read anew for the request
ServeAnalyze(r, reqBody, datasetExists) ==
    /\ server # "index"
    /\ requests[r].pc = "new"
    /\ LET rec == [requests[r] EXCEPT !.route = "analyze", !.input = reqBody]
       IN  requests' =
             [requests EXCEPT
                ![r] = IF reqBody = "noData"
                       THEN [rec EXCEPT !.pc = "done", !.res = Catch(server, NoDataError)]
                       ELSE IF reqBody = "notArray"
                       THEN [rec EXCEPT !.pc = "done", !.res = NotArrayResponse]
                       ELSE IF ~datasetExists
                       THEN [rec EXCEPT !.pc = "done",
                                        !.res = Catch(server, DatasetNotFoundError)]
                       ELSE [rec EXCEPT !.pc = "awaitModel", !.dataset = TRUE]]
    /\ UNCHANGED <<server, disk, unlinks, analyzeVars, postVars, nameVars, unitVars,
                   datasetVars, extractVars, textVars>>

\* the analyze handler from the model's reply to the response:
\* part_000:727-755 and part_000:1557-1628
AnalysisSettled(r, reply) ==
    /\ requests[r].route = "analyze" /\ requests[r].pc = "awaitModel"
    /\ LET answer == IF reply.kind # "json" THEN Catch(server, ReplyError(reply))
                     ELSE IF /\ server = "precision"
                             /\ ~(reply.out.evaluated.isArray /\ reply.out.unmatched.isArray)
                     THEN Catch(server, NotAListError)
                     ELSE SuccessResponse(reply.out.evaluated, reply.out.unmatched)
       IN  requests' = [requests EXCEPT
                          ![r] = [@ EXCEPT !.pc = "done", !.reply = reply, !.res = answer]]
    /\ UNCHANGED <<server, disk, unlinks, analyzeVars, postVars, nameVars, unitVars,
                   datasetVars, extractVars, textVars>>

-----------------------------------------------------------------------------
(* Specifications *)

\* the /analyzeWithDataset handler serving one request
Init ==
    /\ server \in Servers
    /\ pc = "idle"
    /\ body = NoBody
    /\ datasetReads = 0 /\ analysisCalls = 0 /\ sent = 0
    /\ modelOutput = NoOutput
    /\ evaluated = <<>>
    /\ unmatched = <<>>
    /\ withinRange = <<>>
    /\ res = NoResponse
    /\ biomarker = NoBiomarker
    /\ processed = NoProcessed
    /\ thrown = FALSE
    /\ NoStandardization /\ NoUnitExtraction /\ NoDataset /\ NoExtract /\ NoPreprocessing
    /\ NoRequests

Next ==
    \/ \E reqBody \in Bodies, datasetExists \in BOOLEAN :
          AnalyzeRequest(reqBody, datasetExists)
    \/ pc = "awaitModel" /\ \E reply \in ModelReplies : ModelReply(reply)

Spec == Init /\ [][Next]_vars

\* nothing of the /analyzeWithDataset handler or of post-processing has run
Quiet ==
    /\ pc = "idle"
    /\ body = NoBody
    /\ datasetReads = 0 /\ analysisCalls = 0 /\ sent = 0
    /\ modelOutput = NoOutput
    /\ evaluated = <<>>
    /\ unmatched = <<>>
    /\ withinRange = <<>>
    /\ res = NoResponse
    /\ biomarker = NoBiomarker
    /\ processed = NoProcessed
    /\ thrown = FALSE

\* post-processing applied to one extracted biomarker
InitPost ==
    /\ server \in {"simplified", "precision"}
    /\ pc = "idle"
    /\ body = NoBody
    /\ datasetReads = 0 /\ analysisCalls = 0 /\ sent = 0
    /\ modelOutput = NoOutput
    /\ evaluated = <<>>
    /\ unmatched = <<>>
    /\ withinRange = <<>>
    /\ res = NoResponse
    /\ biomarker \in Biomarkers
    /\ processed = NoProcessed
    /\ thrown = FALSE
    /\ NoStandardization /\ NoUnitExtraction /\ NoDataset /\ NoExtract /\ NoPreprocessing
    /\ NoRequests

NextPost == PostProcessBiomarker \/ CleanBiomarker

SpecPost == InitPost /\ [][NextPost]_vars

\* standardizeBiomarkerName applied to a name, then to its own result
InitName ==
    /\ server \in {"simplified", "precision"}
    /\ Quiet
    /\ inputName \in Names
    /\ standardized = NotCalled
    /\ restandardized = NotCalled
    /\ NoUnitExtraction /\ NoDataset /\ NoExtract /\ NoPreprocessing
    /\ NoRequests

NextName == Standardize \/ Restandardize

SpecName == InitName /\ [][NextName]_vars

\* extractUnitFromReferenceRange applied to a reference range
InitUnit ==
    /\ server = "simplified"
    /\ Quiet
    /\ referenceRange \in ReferenceRanges
    /\ extractedUnit = NotCalled
    /\ NoStandardization /\ NoDataset /\ NoExtract /\ NoPreprocessing
    /\ NoRequests

NextUnit == ExtractUnit

SpecUnit == InitUnit /\ [][NextUnit]_vars

\* the dataset loader and the CSV generator applied to a sheet
InitDataset ==
    /\ server \in Servers
    /\ Quiet
    /\ sheet \in Sheets
    /\ datasetRows = NotLoaded
    /\ csv = <<>>
    /\ NoStandardization /\ NoUnitExtraction /\ NoExtract /\ NoPreprocessing
    /\ NoRequests

NextDataset == LoadDataset \/ GenerateCSV

SpecDataset == InitDataset /\ [][NextDataset]_vars

\* the /extractReportGemini handler serving one request
InitExtract ==
    /\ server \in Servers
    /\ Quiet
    /\ NoStandardization /\ NoUnitExtraction /\ NoDataset /\ NoExtract /\ NoPreprocessing
    /\ NoRequests

NextExtract ==
    \/ \E up \in Uploads : ExtractRequest(up)
    \/ \E outcome \in TextOutcomes : TextExtracted(outcome)
    \/ \E reply \in ExtractReplies : ExtractModelReply(reply)
    \/ UnlinkCallback

SpecExtract == InitExtract /\ [][NextExtract]_vars

\* the event loop runs the callback of a completed unlink
SpecExtractLive == SpecExtract /\ WF_vars(UnlinkCallback)

\* preprocessTextForPrecision applied to one extracted text
InitText ==
    /\ server \in {"simplified", "precision"}
    /\ Quiet
    /\ rawText \in RawTexts
    /\ digitsFixed = NotProcessed
    /\ preprocessed = NotProcessed
    /\ NoStandardization /\ NoUnitExtraction /\ NoDataset /\ NoExtract
    /\ NoRequests

NextText == Preprocess

SpecText == InitText /\ [][NextText]_vars

\* the server serving one request, to either route
NextRequest ==
    \/ xpc = "idle" /\ Next
    \/ pc = "idle" /\ NextExtract

SpecRequest == Init /\ [][NextRequest]_vars

\* a server of part_000 serving requests that arrive while others are in progress
InitConcurrent ==
    /\ server \in {"simplified", "precision"}
    /\ Quiet
    /\ NoStandardization /\ NoUnitExtraction /\ NoDataset /\ NoExtract /\ NoPreprocessing
    /\ NoRequests

NextConcurrent ==
    \/ \E r \in Requests, up \in ConcurrentUploads, p \in Paths \cup {NoPath} :
          ServeExtract(r, up, p)
    \/ \E r \in Requests, outcome \in ConcurrentTexts : TextSettled(r, outcome)
    \/ \E r \in Requests, reply \in ConcurrentExtractReplies : ExtractSettled(r, reply)
    \/ \E u \in unlinks : UnlinkDone(u)
    \/ \E r \in Requests, reqBody \in Bodies, datasetExists \in BOOLEAN :
          ServeAnalyze(r, reqBody, datasetExists)
    \/ \E r \in Requests, reply \in ConcurrentReplies : AnalysisSettled(r, reply)

SpecConcurrent == InitConcurrent /\ [][NextConcurrent]_vars

-----------------------------------------------------------------------------
(* Properties of the match reconciler *)

\* the handler of index.js has answered with the reconciled lists
Reconciled == server = "index" /\ pc = "responded" /\ res.success

IsNull(v) == v.t = "null"
IsEmptyString(v) == v.t = "string" /\ v.s = <<>>

\* the validity gate as the specification words it
GenuineMatch(c) ==
    /\ ~IsNull(c.matched_marker)
    /\ ~IsEmptyString(c.matched_marker)
    /\ (~IsNull(c.min) \/ ~IsNull(c.max) \/ ~IsNull(c.severity))

NotGenuineMatch(c) == ~GenuineMatch(c)

FiveFieldsNull(u) ==
    /\ IsNull(u.matched_marker) /\ IsNull(u.gender_used)
    /\ IsNull(u.min) /\ IsNull(u.max) /\ IsNull(u.severity)

C2_EvaluatedCarryIsWithinRange ==
    Reconciled =>
        \A i \in 1..Len(res.evaluated.items) :
            LET e == res.evaluated.items[i]
            IN  ~isNaN(parseFloat(e.value)) =>
                    /\ "isWithinRange" \in DOMAIN e
                    /\ (\A f \in DOMAIN GlucoseExample : e[f] = GlucoseExample[f])
                           => e.isWithinRange = Bool(FALSE)

AbsentAsNull(v) == IF v = Undefined THEN Null ELSE v
FalsyAsNull(v) == IF v = Undefined \/ IsNull(v) \/ IsEmptyString(v) THEN Null ELSE v

\* C3 as stated: an unmatched entry has its five match fields null and
\* its name, value and unit equal to the input's (null when absent).
C3_UnmatchedKeepsInput ==
    Reconciled =>
        LET rejected == SelectSeq(allEntries(modelOutput), NotGenuineMatch)
        IN  /\ Len(unmatched) = Len(rejected)
            /\ \A j \in 1..Len(unmatched) :
                  /\ FiveFieldsNull(unmatched[j])
                  /\ unmatched[j].name = AbsentAsNull(rejected[j].name)
                  /\ unmatched[j].value = AbsentAsNull(rejected[j].value)
                  /\ unmatched[j].unit = AbsentAsNull(rejected[j].unit)

\* C3 amended: an unmatched entry has its five match fields null whatever
\* the proposer supplied; its name, value and unit equal the input's when
\* these are non-empty strings and are null when the input field is
\* absent, null or the empty string.
C3_UnmatchedNullsFalsy ==
    Reconciled =>
        LET rejected == SelectSeq(allEntries(modelOutput), NotGenuineMatch)
        IN  /\ Len(unmatched) = Len(rejected)
            /\ res.unmatched = Arr(unmatched)
            /\ \A j \in 1..Len(unmatched) :
                  /\ FiveFieldsNull(unmatched[j])
                  /\ unmatched[j].name = FalsyAsNull(rejected[j].name)
                  /\ unmatched[j].value = FalsyAsNull(rejected[j].value)
                  /\ unmatched[j].unit = FalsyAsNull(rejected[j].unit)

\* a rejected candidate whose proposer had populated a range and whose
\* value is the empty string
C3_Witness ==
    /\ Reconciled
    /\ \E j \in 1..Len(unmatched) :
          LET c == SelectSeq(allEntries(modelOutput), NotGenuineMatch)[j]
          IN  /\ c.min.t = "string" /\ c.gender_used.t = "string"
              /\ IsEmptyString(c.value) /\ c.name.t = "string"
              /\ IsNull(unmatched[j].value) /\ unmatched[j].name = c.name
              /\ FiveFieldsNull(unmatched[j])

\* C4: in every successful analyze response the lists are the
\* reconciler's partition of the pooled reply: each returned evaluated
\* entry passes the gate, each returned unmatched entry has its five match
\* fields null.
C4_ResponseIsReconciled ==
    (pc = "responded" /\ res.success) =>
        /\ res.evaluated = Arr(Reconcile(modelOutput).evaluated)
        /\ res.unmatched = Arr(Reconcile(modelOutput).unmatched)
        /\ \A i \in 1..Len(res.evaluated.items) : GenuineMatch(res.evaluated.items[i])
        /\ \A j \in 1..Len(res.unmatched.items) : FiveFieldsNull(res.unmatched.items[j])

\* the three numbers the range check reads for the i-th evaluated entry
PatientValue(i) == parseFloat(evaluated[i].value)
MinRange(i) == parseFloat(evaluated[i].min)
MaxRange(i) == parseFloat(evaluated[i].max)

\* C5: with value, min and max all numeric, isWithinRange is true exactly
\* when min <= value <= max, both ends included.
C5_InclusiveRange ==
    Reconciled =>
        /\ Len(withinRange) = Len(evaluated)
        /\ \A i \in 1..Len(evaluated) :
              (~isNaN(PatientValue(i)) /\ ~isNaN(MinRange(i)) /\ ~isNaN(MaxRange(i)))
                  => withinRange[i] = Bool(NumLeq(MinRange(i), PatientValue(i))
                                           /\ NumLeq(PatientValue(i), MaxRange(i)))

\* a value equal to its maximum is within range
C5_Witness ==
    /\ Reconciled
    /\ \E i \in 1..Len(evaluated) :
          /\ ~isNaN(PatientValue(i)) /\ ~isNaN(MinRange(i))
          /\ PatientValue(i) = MaxRange(i)
          /\ withinRange[i] = Bool(TRUE)

\* C6: with a numeric value and exactly one numeric bound, that bound
\* alone decides: value >= min, or value <= max; the open-ended example
\* (5 against min 3, max null) is a valid match within range.
C6_SingleBound ==
    Reconciled =>
        /\ Len(withinRange) = Len(evaluated)
        /\ \A i \in 1..Len(evaluated) :
              /\ (~isNaN(PatientValue(i)) /\ ~isNaN(MinRange(i)) /\ isNaN(MaxRange(i)))
                    => withinRange[i] = Bool(NumLeq(MinRange(i), PatientValue(i)))
              /\ (~isNaN(PatientValue(i)) /\ isNaN(MinRange(i)) /\ ~isNaN(MaxRange(i)))
                    => withinRange[i] = Bool(NumLeq(PatientValue(i), MaxRange(i)))
        /\ \A k \in 1..Len(allEntries(modelOutput)) :
              allEntries(modelOutput)[k] = OpenEndedExample
                  => \E i \in 1..Len(evaluated) :
                        evaluated[i] = OpenEndedExample /\ withinRange[i] = Bool(TRUE)

\* the open-ended example, and a value above a lone maximum
C6_Witness ==
    /\ Reconciled
    /\ \E i \in 1..Len(evaluated) :
          evaluated[i] = OpenEndedExample /\ withinRange[i] = Bool(TRUE)

\* C7: with a numeric value and neither min nor max numeric,
\* isWithinRange is true.
C7_TextualRangeWithin ==
    Reconciled =>
        /\ Len(withinRange) = Len(evaluated)
        /\ \A i \in 1..Len(evaluated) :
              (~isNaN(PatientValue(i)) /\ isNaN(MinRange(i)) /\ isNaN(MaxRange(i)))
                  => withinRange[i] = Bool(TRUE)

\* a numeric value against a textual minimum and no maximum
C7_Witness ==
    /\ Reconciled
    /\ \E i \in 1..Len(evaluated) :
          /\ ~isNaN(PatientValue(i))
          /\ evaluated[i].min = Str(NotApplicable) /\ IsNull(evaluated[i].max)
          /\ withinRange[i] = Bool(TRUE)

\* C8: with a value that is not numeric, isWithinRange is null, whether
\* or not min and max are numeric.
C8_NonNumericValueNull ==
    Reconciled =>
        /\ Len(withinRange) = Len(evaluated)
        /\ \A i \in 1..Len(evaluated) :
              isNaN(PatientValue(i)) => withinRange[i] = Null

\* a textual value against a numeric range
C8_Witness ==
    /\ Reconciled
    /\ \E i \in 1..Len(evaluated) :
          /\ evaluated[i].value = Str(NotApplicable)
          /\ ~isNaN(MinRange(i)) /\ ~isNaN(MaxRange(i))
          /\ withinRange[i] = Null

-----------------------------------------------------------------------------
(* Properties of the numeric-value derivation *)

\* post-processing has returned a record for the biomarker
PostProcessed == processed # NoProcessed

AllDigits(q) == \A i \in 1..Len(q) : q[i] \in Digits

\* q reads digits[.digits]
IsDecimalText(q) ==
    \E i \in 1..Len(q) :
        /\ AllDigits(Take(q, i))
        /\ \/ i = Len(q)
           \/ i + 1 < Len(q) /\ q[i + 1] = "." /\ AllDigits(Drop(q, i + 1))

\* the number a digits[.digits] text writes
DecimalOf(q) ==
    LET dots == { i \in 1..Len(q) : q[i] = "." }
        digits == SelectSeq(q, LAMBDA c : c \in Digits)
        places == IF dots = {} THEN 0 ELSE Len(q) - (CHOOSE i \in dots : TRUE)
    IN  Finite(DigitsValue(digits), 0 - places)

\* parseNumeric as the specification words it: comparison glyphs removed,
\* trimmed, then the number of the longest leading digits[.digits] text
ParseNumericSpec(value) ==
    IF value.t # "string" THEN Null
    ELSE LET clean == Trim(RemoveChars(value.s, OperatorGlyphs))
             lens == { k \in 1..Len(clean) : IsDecimalText(Take(clean, k)) }
         IN  IF lens = {} THEN Null
             ELSE Number(DecimalOf(Take(clean, CHOOSE k \in lens : \A l \in lens : l <= k)))

\* C9: the derived numericValue is the number of the leading
\* digits[.digits] text of the glyph-stripped, trimmed value, or null when
\* there is none: "<0.5" gives 0.5, ">100" gives 100, "14.5" gives 14.5,
\* "NONE SEEN" and the empty value give null.
C9_ParseNumericPrefix ==
    (PostProcessed /\ biomarker.value.t = "string") =>
        /\ processed.numericValue = ParseNumericSpec(biomarker.value)
        /\ biomarker.value.s = <<"<", "0", ".", "5">>
              => processed.numericValue = Number(Finite(5, -1))
        /\ biomarker.value.s = <<">", "1", "0", "0">>
              => processed.numericValue = Number(Finite(100, 0))
        /\ biomarker.value.s = <<"1", "4", ".", "5">>
              => processed.numericValue = Number(Finite(145, -1))
        /\ biomarker.value.s \in {NoneSeen, <<>>} => IsNull(processed.numericValue)

\* the value has no numeric prefix once the comparison glyphs are removed
NoNumericPrefix(value) ==
    value.t = "string" /\ isNaN(ParseFloatStr(RemoveChars(value.s, OperatorGlyphs)))

\* C10 as stated: the derivation never throws, whatever the type of the
\* value, and a value without a numeric prefix yields null.
C10_NeverThrows ==
    /\ ~thrown
    /\ (PostProcessed /\ NoNumericPrefix(biomarker.value))
          => IsNull(processed.numericValue)

-----------------------------------------------------------------------------
(* Properties of name standardization *)

Standardized == standardized # NotCalled

CanonicalOf(key) == (CHOOSE e \in standardizations : e[1] = key)[2]

\* C11: standardize returns the canonical name when the trimmed, lower-cased
\* input is a key of the synonym table, and for every other input string
\* returns that very string.
C11_KeyOrUnchanged ==
    Standardized =>
        LET key == Trim(toLowerCase(inputName.s))
        IN  IF key \in StandardizationKeys
            THEN standardized = Str(CanonicalOf(key))
            ELSE standardized = inputName

Restandardized == restandardized # NotCalled

\* C12: for every key x of the synonym table, standardizing the result of
\* standardize(x) again returns that same result.
C12_IdempotentOnKeys ==
    (Restandardized /\ inputName.s \in StandardizationKeys)
        => restandardized = standardized

\* "hgb" standardized to "Hemoglobin", and "Hemoglobin" standardized again
C12_Witness ==
    /\ inputName = Str(<<"h", "g", "b">>)
    /\ standardized = Str(<<"H", "e", "m", "o", "g", "l", "o", "b", "i", "n">>)
    /\ restandardized = standardized

-----------------------------------------------------------------------------
(* Properties of unit inference and of the unit back-fill *)

UnitExtracted == extractedUnit # NotCalled

\* C13: when some pattern of the fixed list matches the reference range, the
\* result is the leftmost match of the earliest such pattern of the list,
\* wherever in the text the other patterns match.
C13_FirstPatternInListWins ==
    (UnitExtracted /\ referenceRange.t = "string") =>
        \A i \in 1..Len(unitPatterns) :
            ( /\ PatternMatches(referenceRange.s, unitPatterns[i])
              /\ \A j \in 1..(i - 1) : ~PatternMatches(referenceRange.s, unitPatterns[j]) )
            => extractedUnit = Str(FirstMatch(referenceRange.s, unitPatterns[i]))

\* "% mg/dL": the percent sign comes first in the text, mg/dL first in the list
C13_Witness ==
    /\ referenceRange = Str(<<"%", " ", "m", "g", "/", "d", "L">>)
    /\ extractedUnit = Str(MgPerDl)

\* C14: post-processing fills the unit from the reference range only when
\* the extracted unit is absent; a non-empty unit is kept, and group, value
\* and referenceRange leave as they arrived (an absent or empty field as
\* null).
C14_BackfillOnlyWhenAbsent ==
    PostProcessed =>
        /\ Truthy(biomarker.unit) => processed.unit = biomarker.unit
        /\ processed.unit # FalsyAsNull(biomarker.unit) => ~Truthy(biomarker.unit)
        /\ processed.group = FalsyAsNull(biomarker.group)
        /\ processed.value = FalsyAsNull(biomarker.value)
        /\ processed.referenceRange = FalsyAsNull(biomarker.referenceRange)

-----------------------------------------------------------------------------
(* Properties of the reference dataset and of its serialization *)

NonEmptyMarker(row) == row.marker.t = "string" /\ Trim(row.marker.s) # <<>>

\* C15: the loaded dataset holds exactly the sheet rows whose marker is
\* non-empty after trimming: none with an empty or blank marker, and every
\* row with a marker.
C15_MarkerFilter ==
    datasetRows.loaded =>
        /\ \A i \in 1..Len(datasetRows.rows) : NonEmptyMarker(datasetRows.rows[i])
        /\ Len(datasetRows.rows) = Cardinality({ i \in 1..Len(sheet) : NonEmptyMarker(sheet[i]) })

\* the handler answered a request for which the dataset file was missing
DatasetWasMissing ==
    /\ pc = "responded"
    /\ \E i \in 1..Len(res.message) : res.message[i] = DatasetNotFoundError.text

\* C16: when the dataset file does not exist the response carries an error
\* kind of its own, different from the kind of a generic analysis failure.
C16_MissingDatasetDistinctKind ==
    DatasetWasMissing =>
        /\ res.error_type = "missing_dataset"
        /\ res.error_type # Catch(server, RejectedError).error_type

Serialized == csv # <<>>

\* the text of a field of a loaded row; an empty cell is the empty text
FieldText(v) == TemplateText(NullishEmpty(v))

\* the fields of a row in the order of the header's columns
FieldsInOrder(srv, row) ==
    IF srv = "simplified"
    THEN <<FieldText(row.marker), FieldText(row.gender), FieldText(row.min),
           FieldText(row.max), TemplateText(Undefined), TemplateText(Undefined),
           TemplateText(Undefined), FieldText(row.severity)>>
    ELSE <<FieldText(row.marker), FieldText(row.gender), FieldText(row.min),
           FieldText(row.max), FieldText(row.severity)>>

QuotedLine(fields) ==
    Join([i \in 1..Len(fields) |-> Quoted(DoubleQuotes(fields[i]))], <<",">>)

\* C17: the serialization is the header line followed by one line per row,
\* the fields in the order of the header, each enclosed in double quotes
\* with every double quote inside it doubled.
C17_QuotedEscapedLines ==
    Serialized =>
        csv = Join(<<Join(Headers(server), <<",">>)>>
                   \o [i \in 1..Len(datasetRows.rows) |->
                          QuotedLine(FieldsInOrder(server, datasetRows.rows[i]))],
                   <<"\n">>)

\* position of the quote that closes a quoted field whose content starts at
\* p: a doubled quote does not close it
RECURSIVE ClosingQuote(_, _)
ClosingQuote(text, p) ==
    IF p > Len(text) THEN p
    ELSE IF text[p] # Quote THEN ClosingQuote(text, p + 1)
    ELSE IF p < Len(text) /\ text[p + 1] = Quote THEN ClosingQuote(text, p + 2)
    ELSE p

\* position of the comma or line feed that ends the field, from p on
RECURSIVE FieldEnd(_, _)
FieldEnd(text, p) ==
    IF p > Len(text) \/ text[p] \in {",", "\n"} THEN p ELSE FieldEnd(text, p + 1)

\* a doubled quote read as one quote
RECURSIVE Undouble(_)
Undouble(q) ==
    IF q = <<>> THEN <<>>
    ELSE IF Len(q) >= 2 /\ q[1] = Quote /\ q[2] = Quote THEN <<Quote>> \o Undouble(Drop(q, 2))
    ELSE <<Head(q)>> \o Undouble(Tail(q))

\* comma-separated quoted text read field by field from position p on: a
\* field that opens with a quote runs to its closing quote, a comma ends a
\* field and a line feed ends a row
RECURSIVE ParseCsvFrom(_, _, _, _)
ParseCsvFrom(text, p, row, rows) ==
    LET quoted == p <= Len(text) /\ text[p] = Quote
        close == IF quoted THEN ClosingQuote(text, p + 1) ELSE p
        end == IF quoted THEN FieldEnd(text, close + 1) ELSE FieldEnd(text, p)
        field == IF quoted
                 THEN Undouble(SubSeq(text, p + 1, close - 1)) \o SubSeq(text, close + 1, end - 1)
                 ELSE SubSeq(text, p, end - 1)
    IN  IF end > Len(text) THEN rows \o <<row \o <<field>>>>
        ELSE IF text[end] = ","
        THEN ParseCsvFrom(text, end + 1, row \o <<field>>, rows)
        ELSE ParseCsvFrom(text, end + 1, <<>>, rows \o <<row \o <<field>>>>)

ParseCsv(text) == ParseCsvFrom(text, 1, <<>>, <<>>)

\* C18: parsing the serialization of the loaded rows gives the header and
\* one row per loaded row, with the same marker, gender, min, max and
\* severity, also when a field holds a double quote or a comma.
C18_RoundTrip ==
    Serialized =>
        LET parsed == ParseCsv(csv)
            columns == Len(Headers(server))
        IN  /\ Len(parsed) = 1 + Len(datasetRows.rows)
            /\ \A i \in 1..Len(datasetRows.rows) :
                   /\ Len(parsed[i + 1]) = columns
                   /\ parsed[i + 1][1] = FieldText(datasetRows.rows[i].marker)
                   /\ parsed[i + 1][2] = FieldText(datasetRows.rows[i].gender)
                   /\ parsed[i + 1][3] = FieldText(datasetRows.rows[i].min)
                   /\ parsed[i + 1][4] = FieldText(datasetRows.rows[i].max)
                   /\ parsed[i + 1][columns] = FieldText(datasetRows.rows[i].severity)

-----------------------------------------------------------------------------
(* Properties of the /extractReportGemini handler *)

NeitherPdfNorWord(mimetype) == mimetype \in {Png, PlainText}

\* C20: a request whose upload is neither a PDF nor a word-processing
\* document is answered with the unsupported-type error message, and the
\* model is never called for it.
C20_UnsupportedTypeRejected ==
    NeitherPdfNorWord(upload) =>
        /\ modelCalls = 0
        /\ xpc = "done" =>
              /\ xres.status = 500 /\ ~xres.success
              /\ xres.message[Len(xres.message)] = UnsupportedTypeError(server).text

\* a plain-text upload refused as unsupported, its file deleted
C20_Witness ==
    /\ upload = PlainText
    /\ xpc = "done"
    /\ xres = ExtractCatch(server, UnsupportedTypeError(server))
    /\ modelCalls = 0
    /\ file = "deleted"

\* the awaited text extraction of the request has settled with a text
TextWasExtracted ==
    \/ xpc = "awaitModel"
    \/ /\ xpc = "done"
       /\ upload # NoFile /\ DocumentKind(upload) # "unsupported"
       /\ xres # ExtractCatch(server, TextExtractionError)

\* C21: a request whose extracted, cleaned text is shorter than 100
\* characters is answered as insufficient, with success false, and the model
\* is not called for it.
C21_ShortTextRejected ==
    (TextWasExtracted /\ rawTextLength < MinReadableChars) =>
        /\ modelCalls = 0
        /\ xres = InsufficientTextResponse

-----------------------------------------------------------------------------
(* Properties of the /analyzeWithDataset handler *)

\* the body lacks the data object, or data.biomarkers is not an array
Malformed(reqBody) == reqBody \in {"noData", "notArray"}

\* C22: a request whose body is malformed is answered with the response of
\* the boundary check, and neither the dataset loader nor the model is
\* called for it.
C22_MalformedBodyRejectedAtBoundary ==
    (pc = "responded" /\ Malformed(body)) =>
        /\ res = NotArrayResponse
        /\ datasetReads = 0
        /\ analysisCalls = 0

-----------------------------------------------------------------------------
(* Properties of the error responses *)

\* what tells a caller the kind of a failure: the message without the text
\* of the error that was caught
MessageTemplate(message, err) == SelectSeq(message, LAMBDA part : part # err.text)

\* C23: the response to a request whose model reply was cut short differs,
\* in what classifies it, from the response to any other failure of the
\* model call (here in the extract operation).
C23_IncompleteReplyClassifiedDistinctly ==
    (xpc = "done" /\ xreply = "truncated") =>
        \A other \in {RejectedError, MalformedError} :
            MessageTemplate(xres.message, TruncatedError)
                # MessageTemplate(ExtractCatch(server, other).message, other)

-----------------------------------------------------------------------------
(* Properties of text preprocessing *)

Preprocessed == preprocessed # NotProcessed

\* the digit a stand-in letter is read as
DigitFor(c) == IF c \in {"O", "o"} THEN "0" ELSE "1"

StandIns == {"O", "o", "I", "l"}

\* runs of blanks do not occur, so that the replaces of the stand-in
\* letters see the text as it is
NoBlankRun(text) ==
    \A p \in 1..Len(text) : ~(IsAt(text, p, {" ", "\t"}) /\ IsAt(text, p + 1, {" ", "\t"}))

\* C24: a stand-in letter that has a digit right after it, right before it,
\* or on both sides is rewritten to its digit; a stand-in letter with no
\* digit next to it is left as it is.
C24_StandInNextToDigit ==
    (Preprocessed /\ NoBlankRun(rawText)) =>
        /\ Len(digitsFixed) = Len(rawText)
        /\ \A p \in 1..Len(rawText) :
              rawText[p] \in StandIns =>
                  digitsFixed[p] =
                      IF IsAt(rawText, p + 1, Digits) \/ IsAt(rawText, p - 1, Digits)
                      THEN DigitFor(rawText[p])
                      ELSE rawText[p]

ColonAfterWord(text, p) == text[p] = ":" /\ IsAt(text, p - 1, Letters)

OneSpaceAfter(text, p) == IsAt(text, p + 1, {" "}) /\ ~IsAt(text, p + 2, WhiteSpace)

\* no < or > has white space and then a digit after it
NoGapBeforeDigit(text) ==
    \A p \in 1..Len(text) :
        text[p] \in {"<", ">"} =>
            LET gap == RunAt(text, p + 1, WhiteSpace)
            IN  ~(gap > 0 /\ IsAt(text, p + 1 + gap, Digits))

\* C25 as stated: in the returned text every colon that follows a word is
\* followed by exactly one space, and no < or > is separated by white space
\* from a digit after it.
C25_ColonAndOperatorSpacing ==
    Preprocessed =>
        /\ \A p \in 1..Len(preprocessed) :
              ColonAfterWord(preprocessed, p) => OneSpaceAfter(preprocessed, p)
        /\ NoGapBeforeDigit(preprocessed)

\* C25 amended: in the returned text every colon that follows a word and is
\* not the last character is followed by exactly one space, a colon that
\* ends the text has nothing after it, and no < or > is separated by white
\* space from a digit after it.
C25_SpacingExceptFinalColon ==
    Preprocessed =>
        /\ \A p \in 1..Len(preprocessed) :
              (ColonAfterWord(preprocessed, p) /\ p < Len(preprocessed))
                  => OneSpaceAfter(preprocessed, p)
        /\ NoGapBeforeDigit(preprocessed)

\* a label whose colon and operator were set off by blanks and tabs
C25_Witness ==
    /\ rawText = <<"H", "b", " ", "\t", ":", "\t", ">", " ", " ", "1", "2", ".", "5">>
    /\ preprocessed = <<"H", "b", ":", " ", ">", "1", "2", ".", "5">>

-----------------------------------------------------------------------------
(* Further properties of the match reconciler *)

IsAbsent(v) == v.t = "undefined"

\* the candidate has no matched_marker field, or none of min, max, severity
OmitsMatchFields(c) ==
    \/ IsAbsent(c.matched_marker)
    \/ IsAbsent(c.min) /\ IsAbsent(c.max) /\ IsAbsent(c.severity)

\* C27: no entry of evaluated is a candidate that omits matched_marker or
\* that omits all of min, max and severity.
C27_AbsentFieldsFailTheGate ==
    Reconciled => \A i \in 1..Len(evaluated) : ~OmitsMatchFields(evaluated[i])

\* the pooled sequence: the proposer's evaluated list, then its unmatched
\* list (a list that is no array has no items)
Pooled == modelOutput.evaluated.items \o modelOutput.unmatched.items

SameFields(e, c) ==
    /\ e.name = c.name /\ e.value = c.value /\ e.unit = c.unit
    /\ e.matched_marker = c.matched_marker /\ e.gender_used = c.gender_used
    /\ e.min = c.min /\ e.max = c.max /\ e.severity = c.severity

\* C26: the entries of evaluated are the pooled candidates that pass the
\* gate, each with every field as the proposer gave it; whether a candidate
\* passes does not depend on its gender_used.
C26_EvaluatedKeepsFields ==
    Reconciled =>
        LET kept == SelectSeq(Pooled, GenuineMatch)
        IN  /\ Len(evaluated) = Len(kept)
            /\ \A i \in 1..Len(kept) : SameFields(evaluated[i], kept[i])
            /\ \A i \in 1..Len(Pooled) :
                  GenuineMatch([Pooled[i] EXCEPT !.gender_used = Null])
                      => \E j \in 1..Len(evaluated) : SameFields(evaluated[j], Pooled[i])

\* two kept candidates, one with a null gender_used and one with a gender
\* the patient may not have
C26_Witness ==
    /\ Reconciled
    /\ Len(evaluated) = 2
    /\ IsNull(evaluated[1].gender_used)
    /\ evaluated[2].gender_used = Str(<<"b", "o", "t", "h">>)
    /\ unmatched = <<>>

\* every pooled candidate is matched, in order, with the next entry of
\* evaluated (the candidate itself) or of unmatched (its name, value and unit)
RECURSIVE Interleaves(_, _, _)
Interleaves(pooled, ev, un) ==
    IF pooled = <<>> THEN ev = <<>> /\ un = <<>>
    ELSE \/ /\ ev # <<>> /\ SameFields(Head(ev), Head(pooled))
            /\ Interleaves(Tail(pooled), Tail(ev), un)
         \/ /\ un # <<>>
            /\ Head(un).name = FalsyAsNull(Head(pooled).name)
            /\ Head(un).value = FalsyAsNull(Head(pooled).value)
            /\ Head(un).unit = FalsyAsNull(Head(pooled).unit)
            /\ Interleaves(Tail(pooled), ev, Tail(un))

\* C28: the two output lists partition the pooled sequence: their lengths
\* add up to its length, and each list holds its candidates in pooled order.
C28_PartitionInPooledOrder ==
    Reconciled =>
        /\ Len(evaluated) + Len(unmatched) = Len(Pooled)
        /\ Interleaves(Pooled, evaluated, unmatched)

\* a pool of two, both proposed as evaluated, of which the first goes to
\* unmatched
C28_Witness ==
    /\ Reconciled
    /\ Len(Pooled) = 2
    /\ Len(evaluated) = 1 /\ Len(unmatched) = 1
    /\ GenuineMatch(Pooled[2]) /\ NotGenuineMatch(Pooled[1])
    /\ Len(modelOutput.evaluated.items) = 2

-----------------------------------------------------------------------------
(* Properties of the responses *)

\* the body of the analyze response: the success flag with a data payload,
\* or with an error message
AnalyzeResponseShape ==
    IF res.success
    THEN res.status = 200 /\ (res.evaluated.isArray \/ res.unmatched.isArray)
    ELSE res.status \in {400, 500} /\ res.message # <<>>

\* the body of the extract response, whose error message is in the error
\* property or in the message property
ExtractResponseShape ==
    IF xres.success
    THEN xres.status = 200 /\ xres.data.present
    ELSE xres.status \in {400, 500} /\ (xres.error # "none" \/ xres.message # <<>>)

OneResponseAtMost ==
    /\ sent \in {0, 1} /\ xsent \in {0, 1}
    /\ (pc = "responded") = (sent = 1)
    /\ (xpc = "done") = (xsent = 1)
    /\ sent = 1 => AnalyzeResponseShape
    /\ xsent = 1 => ExtractResponseShape

\* a handler that has ended has answered, and one that has not ended is
\* waiting for a call it made, whose settling lets it go on
AnswerOutstanding ==
    /\ pc \in {"responded", "threw"} => sent = 1
    /\ xpc \in {"done", "threw"} => xsent = 1
    /\ pc = "awaitModel" =>
          /\ analysisCalls = 1
          /\ ENABLED (\E reply \in ModelReplies : ModelReply(reply))
    /\ xpc = "awaitText" => ENABLED (\E outcome \in TextOutcomes : TextExtracted(outcome))
    /\ xpc = "awaitModel" =>
          /\ modelCalls = 1
          /\ ENABLED (\E reply \in ExtractReplies : ExtractModelReply(reply))

\* C29: a request to either route is answered exactly once on every path
\* through its handler: no path sends a second response, every path that
\* ends has sent one, and a handler that has not ended is waiting for a call
\* whose settling makes it answer; the response carries the success flag with
\* a data payload when it is true and with an error message when it is false.
C29_ExactlyOneResponse == OneResponseAtMost /\ AnswerOutstanding

-----------------------------------------------------------------------------
(* Properties of concurrent requests *)

\* what the extract handler answers to a request served alone, given the
\* upload, the settled text extraction and the model's reply
ExtractAnswer(srv, up, text, reply) ==
    IF up = NoFile THEN NoFileResponse
    ELSE IF DocumentKind(up) = "unsupported"
    THEN ExtractCatch(srv, UnsupportedTypeError(srv))
    ELSE IF text = NoText THEN ExtractCatch(srv, TextExtractionError)
    ELSE IF text < MinReadableChars THEN InsufficientTextResponse
    ELSE IF reply.kind # "json" THEN ExtractCatch(srv, ReplyError(reply))
    ELSE LET done == PostProcessAll(srv, reply.biomarkers)
         IN  IF \E i \in 1..Len(done) : done[i].thrown
             THEN ExtractCatch(srv, PostProcessError)
             ELSE ExtractSuccess(srv, reply.hasBiomarkers,
                                 [i \in 1..Len(done) |-> done[i].record])

\* what the analyze handler answers to a request served alone, given the
\* body, the dataset file it found and the model's reply
AnalyzeAnswer(srv, reqBody, datasetExists, reply) ==
    IF reqBody = "noData" THEN Catch(srv, NoDataError)
    ELSE IF reqBody = "notArray" THEN NotArrayResponse
    ELSE IF ~datasetExists THEN Catch(srv, DatasetNotFoundError)
    ELSE IF reply.kind # "json" THEN Catch(srv, ReplyError(reply))
    ELSE IF srv = "precision" /\ ~(reply.out.evaluated.isArray /\ reply.out.unmatched.isArray)
    THEN Catch(srv, NotAListError)
    ELSE SuccessResponse(reply.out.evaluated, reply.out.unmatched)

\* every stored upload belongs to the request it came with, only that
\* request calls fs.unlink on it, and it is there for as long as its
\* request is in progress
OwnFileOnly ==
    /\ \A r \in Requests :
          requests[r].path # NoPath =>
              /\ requests[r].route = "extract"
              /\ disk[requests[r].path].owner = r
              /\ requests[r].pc \in {"awaitText", "awaitModel"}
                    => disk[requests[r].path].state = "stored"
    /\ \A u \in unlinks : u.path = requests[u.by].path
    /\ \A p \in Paths :
          /\ disk[p].state = "deleted" => disk[p].deleter = disk[p].owner
          /\ disk[p].state # "free" => requests[disk[p].owner].path = p

\* the response of a request is the one the handler gives to that request
\* served alone, and a request has no other response
OwnInputOnly ==
    \A r \in Requests :
        /\ requests[r].pc # "done" =>
              requests[r].xres = NoExtractResponse /\ requests[r].res = NoResponse
        /\ (requests[r].pc = "done" /\ requests[r].route = "extract") =>
              /\ requests[r].xres = ExtractAnswer(server, requests[r].input, requests[r].text,
                                                  requests[r].xreply)
              /\ requests[r].res = NoResponse
        /\ (requests[r].pc = "done" /\ requests[r].route = "analyze") =>
              /\ requests[r].res = AnalyzeAnswer(server, requests[r].input,
                                                 requests[r].dataset, requests[r].reply)
              /\ requests[r].xres = NoExtractResponse

\* C30: however concurrent requests are interleaved, an extract request
\* deletes the uploaded file it was given and no other, and the response of
\* every request is determined by its own input, the dataset file it read
\* and the model's reply to it.
C30_RequestsAreIsolated == OwnFileOnly /\ OwnInputOnly

\* two extract requests in progress at once: the second has been answered
\* and its file deleted while the first still waits for the model, its file
\* in place
C30_Witness ==
    /\ requests[1].route = "extract" /\ requests[1].pc = "awaitModel"
    /\ disk[requests[1].path].state = "stored"
    /\ requests[2].route = "extract" /\ requests[2].pc = "done"
    /\ requests[2].path # NoPath
    /\ requests[2].xres.success
    /\ disk[requests[2].path].state = "deleted"

====
